---- MODULE Spec2Model ----
(***************************************************************************)
(* Model of doris::MemTrackerLimiter (be/src/runtime/memory/               *)
(* mem_tracker_limiter.h): a tree of accounting nodes with cached ancestor *)
(* chains, atomic consumption counters, the try_consume protocol with      *)
(* rollback and GC retry, check_limit, and the batched cache_consume_local *)
(* path.  Every atomic memory access of the code is one step of a thread.  *)
(***************************************************************************)
EXTENDS Integers, Sequences, FiniteSets, TLC

\* ---------------------------------------------------------------- bounds
MaxCalls == 3          \* calls issued in one behaviour
MaxBytes == 2          \* largest byte count passed to a call
MaxGc == 3             \* callbacks registered on one tracker
MaxDepth == 3          \* largest recursion depth passed to a report

\* config::mem_tracker_consume_min_size_bytes (flush threshold of the batch)
mem_tracker_consume_min_size_bytes == 3
\* MemInfo::mem_limit(): the physical ceiling consulted by check_sys_mem_info
mem_limit == 4
\* int64_t::max(), what spare_capacity returns without limits (the largest
\* integer of the model stands for the largest int64)
INT64_MAX == 2147483647

\* ----------------------------------------------------------------- tree
\* Four trackers: 1 is the parentless tracker, 2 its child, 3 and 4 are
\* siblings below 2, so that the chains of 3 and 4 share the ancestors 2, 1.
NoParent == 0
Nodes == {1, 2, 3, 4}
Threads == {1, 2}
InitParent == [n \in Nodes |-> IF n = 1 THEN NoParent ELSE IF n = 2 THEN 1 ELSE 2]

VARIABLES
    parent,             \* _parent
    label,              \* MemTracker::_label ("Process" or another string)
    limit,              \* _limit
    all_ancestors,      \* _all_ancestors: this tracker first, root last
    limited_ancestors,  \* _limited_ancestors
    live,               \* the trackers constructed and not destroyed
    child_tracker_limiters,      \* _child_tracker_limiters, in list order
    had_child_count,             \* _had_child_count
    child_tracker_limiter_lock,  \* _child_tracker_limiter_lock: 0 or the holder
    consumption,        \* _consumption->current_value()
    untracked_mem,      \* _untracked_mem
    gc_lock,            \* _gc_lock: 0 when free, else the holding thread
    gc_functions,       \* _gc_functions: per callback, its registration
                        \* number on the tracker and the bytes it can free
    vm_rss,             \* PerfCounters::get_vm_rss()
    th,                 \* per thread: program counter and locals of its call
    ncalls,             \* calls issued so far
    hist                \* history: what the calls that returned have done

treeVars == <<parent, label, limit, all_ancestors, limited_ancestors, live,
             child_tracker_limiters, had_child_count, child_tracker_limiter_lock>>
vars == <<parent, label, limit, all_ancestors, limited_ancestors, live,
          child_tracker_limiters, had_child_count, child_tracker_limiter_lock,
          consumption, untracked_mem, gc_lock, gc_functions, vm_rss, th, ncalls,
          hist>>

\* -------------------------------------------------------------- helpers
Abs(x) == IF x < 0 THEN -x ELSE x

RECURSIVE Chain(_, _)
\* The constructor's walk up the _parent links: n, parent(n), ... root.
Chain(p, n) == IF n = NoParent THEN <<>> ELSE <<n>> \o Chain(p, p[n])

\* _limited_ancestors: the entries of the chain with a limit, the
\* parentless (process) tracker excepted.
LimitedOf_WithRoot(p, lim, n) == SelectSeq(Chain(p, n), LAMBDA a : lim[a] >= 0)
LimitedOf(p, lim, n) ==
    SelectSeq(Chain(p, n), LAMBDA a : lim[a] >= 0 /\ p[a] # NoParent)

SeqSet(s) == {s[x] : x \in 1..Len(s)}

RECURSIVE SortedSeq(_)
\* The trackers of S in the order of their construction (1, 2, ...).
SortedSeq(S) ==
    IF S = {} THEN <<>>
    ELSE LET n == CHOOSE x \in S : \A y \in S : x <= y
         IN <<n>> \o SortedSeq(S \ {n})

\* The child registry of tracker n once the trackers with parents p have
\* been constructed: each was inserted at the end of its parent's list.
ChildrenOf(p, n) == SortedSeq({c \in DOMAIN p : p[c] = n})

\* Status values.
OK == [code |-> "OK", tracker |-> 0]
ProcessMemoryExceeded == [code |-> "ProcessMemoryExceeded", tracker |-> 0]
TrackerLimitExceeded(n) == [code |-> "TrackerLimitExceeded", tracker |-> n]

\* ---------------------------------------------------- ConsumptionCounter
\* add(delta): unconditional atomic add.
CounterAdd(c, n, delta) == [c EXCEPT ![n] = @ + delta]

\* try_add(delta, max): adds only if the new value stays below max.
TryAddOk(cur, delta, max) == cur + delta < max

\* has_limit(), limit_exceeded()
has_limit(n) == limit[n] >= 0
limit_exceeded_OrEqual(n) == limit[n] >= 0 /\ limit[n] <= consumption[n]
limit_exceeded(n) == limit[n] >= 0 /\ limit[n] < consumption[n]

\* check_sys_mem_info(bytes): fails when rss + bytes reaches the ceiling.
SysMemExceeded_NoBytes(bytes) == vm_rss >= mem_limit
SysMemExceeded(bytes) == vm_rss + bytes >= mem_limit
check_sys_mem_info(bytes) ==
    IF SysMemExceeded(bytes) THEN ProcessMemoryExceeded ELSE OK

\* -------------------------------------------------------- thread frames
\* pre is the snapshot of the counters taken when the call was issued,
\* freed is what the GC callbacks invoked by the call have released, per
\* tracker, and inv lists the ids of the callbacks invoked so far in the
\* GC pass the thread is in; they are history fields, read by the properties only.
\* val is the integer a query returns, rep the trackers a report lists and
\* kids the copy of a child list a constructor or destructor works on.
Idle ==
    [pc |-> "idle", op |-> "none", self |-> 0, bytes |-> 0, dst |-> 0,
     i |-> 0, j |-> 0, k |-> 0, cur |-> 0, st |-> OK, gcnode |-> 0, gcmax |-> 0,
     ret |-> "none", cret |-> "none", cnode |-> 0, delta |-> 0, ci |-> 0, consume_bytes |-> 0,
     val |-> 0, rep |-> <<>>, kids |-> <<>>,
     pre |-> [c |-> [n \in Nodes |-> 0], u |-> [n \in Nodes |-> 0]],
     freed |-> [n \in Nodes |-> 0], inv |-> <<>>]

Fresh(o, n, b) ==
    [Idle EXCEPT !.op = o, !.self = n, !.bytes = b,
                 !.pre = [c |-> consumption, u |-> untracked_mem]]

\* The frame of a call that has returned status s: the locals are dead.
Done(f, s) ==
    [Idle EXCEPT !.pc = "done", !.op = f.op, !.self = f.self, !.bytes = f.bytes,
                 !.dst = f.dst, !.st = s, !.pre = f.pre, !.freed = f.freed]

Upd(t, f) == [th EXCEPT ![t] = f]

CanCall(t) == th[t].pc \in {"idle", "done"} /\ ncalls < MaxCalls

\* History: expect is what the counters must show once every call has
\* returned if each call is all-or-nothing; held is what successful
\* try_consume calls on a tracker have consumed and not released; passed is
\* the sum of the bytes given to cache_consume_local on a tracker; drained
\* is the sum of the values add_untracked_mem has returned on a tracker.
HistInit ==
    [expect |-> [n \in Nodes |-> 0], held |-> [n \in Nodes |-> 0],
     passed |-> [n \in Nodes |-> 0], drained |-> [n \in Nodes |-> 0]]

AddOnChain(e, n, b) ==
    [a \in Nodes |-> IF a \in SeqSet(all_ancestors[n]) THEN e[a] + b ELSE e[a]]

\* The history after the call of frame f has returned status s.
HistRet(f, s) ==
    CASE f.op = "try_consume" /\ s = OK ->
            [hist EXCEPT !.expect = AddOnChain(@, f.self, f.bytes),
                         !.held = [@ EXCEPT ![f.self] = @ + f.bytes]]
      [] f.op = "consume" ->
            [hist EXCEPT !.expect = AddOnChain(@, f.self, f.bytes)]
      [] f.op = "release" ->
            [hist EXCEPT !.expect = AddOnChain(@, f.self, -f.bytes),
                         !.held = [@ EXCEPT ![f.self] = @ - f.bytes]]
      [] OTHER -> hist

\* Thread t returns status s from the call of frame f.
Return(t, f, s) ==
    /\ th' = Upd(t, Done(f, s))
    /\ hist' = HistRet(f, s)

\* Thread t goes on in its call with frame f.
Goto(t, f) ==
    /\ th' = Upd(t, f)
    /\ UNCHANGED hist

\* ------------------------------------------------ consume / release
\* Issue of a call: nothing but the caller's frame changes.
Issue ==
    /\ ncalls' = ncalls + 1
    /\ UNCHANGED <<treeVars, consumption, untracked_mem, gc_lock, gc_functions, vm_rss>>

\* A step of a call that touches no shared state.
Local == UNCHANGED <<treeVars, consumption, untracked_mem, gc_lock, gc_functions,
                     vm_rss, ncalls>>

\* The frame entering consume(d) on tracker n; r says where the loop returns.
EnterConsume(f, n, d, r) ==
    [f EXCEPT !.pc = "consume", !.cnode = n, !.delta = d, !.ci = 1, !.cret = r]

\* consume(bytes): if (bytes == 0) return; else the loop over _all_ancestors.
CallConsume(t, n, b) ==
    /\ CanCall(t)
    /\ IF b = 0
         THEN Return(t, Fresh("consume", n, b), OK)
         ELSE Goto(t, EnterConsume(Fresh("consume", n, b), n, b, "return"))
    /\ Issue

\* release(bytes) { consume(-bytes); }
CallRelease(t, n, b) ==
    /\ CanCall(t)
    /\ IF -b = 0
         THEN Return(t, Fresh("release", n, b), OK)
         ELSE Goto(t, EnterConsume(Fresh("release", n, b), n, -b, "return"))
    /\ Issue

\* The trackers the consume loop charges: all of _all_ancestors.
ConsumeLast_SkipRoot(n) == IF Len(all_ancestors[n]) > 1 THEN Len(all_ancestors[n]) - 1 ELSE 1
ConsumeLast(n) == Len(all_ancestors[n])

\* tracker->_consumption->add(bytes) in consume and in try_consume: an
\* atomic add on the counter, which waits for no lock.
AddReady_GcLock(tracker) == gc_lock[tracker] = 0
AddReady(tracker) == TRUE

\* One iteration of the loop of consume: tracker->_consumption->add(bytes).
ConsumeStep(t) ==
    LET f == th[t] IN
    /\ f.pc = "consume"
    /\ AddReady(all_ancestors[f.cnode][f.ci])
    /\ consumption' = CounterAdd(consumption, all_ancestors[f.cnode][f.ci], f.delta)
    /\ IF f.ci < ConsumeLast(f.cnode)
         THEN Goto(t, [f EXCEPT !.ci = @ + 1])
         ELSE IF f.cret = "return"
                THEN Return(t, f, OK)
                ELSE Goto(t, [f EXCEPT !.pc = f.cret, !.cret = "none", !.cnode = 0,
                                       !.delta = 0, !.ci = 0])
    /\ UNCHANGED <<treeVars, untracked_mem, gc_lock, gc_functions, vm_rss, ncalls>>

\* ------------------------------------------- try_consume, check_limit
\* try_consume(bytes): bytes <= 0 is release(-bytes), which is
\* consume(bytes); otherwise check_sys_mem_info comes first.
IsRelease_Negative(b) == b < 0
IsRelease(b) == b <= 0

CallTryConsume(t, n, b) ==
    /\ CanCall(t)
    /\ LET f == Fresh("try_consume", n, b) IN
       IF IsRelease(b)
         THEN IF b = 0 THEN Return(t, f, OK)
                       ELSE Goto(t, EnterConsume(f, n, b, "return"))
         ELSE Goto(t, [f EXCEPT !.pc = "sys"])
    /\ Issue

\* check_limit(bytes): if (bytes <= 0) return Status::OK();
NothingToCheck_Negative(b) == b < 0
NothingToCheck(b) == b <= 0

CallCheckLimit(t, n, b) ==
    /\ CanCall(t)
    /\ LET f == Fresh("check_limit", n, b) IN
       IF NothingToCheck(b) THEN Return(t, f, OK)
                 ELSE Goto(t, [f EXCEPT !.pc = "sys"])
    /\ Issue

\* RETURN_IF_ERROR(check_sys_mem_info(bytes)), then the start of the walk:
\* try_consume walks _all_ancestors, check_limit walks _limited_ancestors,
\* both from the last entry (the root end) down to the first.
SysCheck(t) ==
    LET f == th[t]
        st == check_sys_mem_info(f.bytes)
        walk == IF f.op = "try_consume" THEN all_ancestors[f.self]
                                        ELSE limited_ancestors[f.self]
    IN
    /\ f.pc = "sys"
    /\ IF st # OK THEN Return(t, f, st)
       ELSE IF Len(walk) = 0 THEN Return(t, f, OK)
       ELSE Goto(t, [f EXCEPT !.pc = IF f.op = "try_consume" THEN "tc_walk" ELSE "cl_walk",
                              !.i = Len(walk)])
    /\ Local

\* The test of try_consume's walk: a tracker with a limit that is not the
\* process tracker is gated by try_add, any other is charged outright.
Gated_LabelInverted(tracker) == ~(limit[tracker] < 0 \/ label[tracker] # "Process")
Gated_ByParent(tracker) == ~(limit[tracker] < 0 \/ parent[tracker] = NoParent)
Gated(tracker) == ~(limit[tracker] < 0 \/ label[tracker] = "Process")

\* try_gc_memory(bytes) is gc_memory(limit - bytes): the consumption that
\* leaves room for the bytes.
GcTarget_Limit(tracker, bytes) == limit[tracker]
GcTarget(tracker, bytes) == limit[tracker] - bytes

\* The frame entering tracker->try_gc_memory(bytes); r is the return point.
EnterGc(f, tracker, r) ==
    [f EXCEPT !.pc = "gc_lock", !.gcnode = tracker,
              !.gcmax = GcTarget(tracker, f.bytes), !.ret = r, !.inv = <<>>]

\* One iteration of try_consume's walk: add on an ungated tracker; on a
\* gated one try_add, whose first step reads the counter.
TcWalk(t) ==
    LET f == th[t]
        tracker == all_ancestors[f.self][f.i]
    IN
    /\ f.pc = "tc_walk"
    /\ IF ~Gated(tracker)
         THEN /\ AddReady(tracker)
              /\ consumption' = CounterAdd(consumption, tracker, f.bytes)
              /\ IF f.i > 1 THEN Goto(t, [f EXCEPT !.i = @ - 1])
                            ELSE Return(t, f, OK)
         ELSE /\ UNCHANGED consumption
              /\ Goto(t, [f EXCEPT !.pc = "try_add", !.cur = consumption[tracker]])
    /\ UNCHANGED <<treeVars, untracked_mem, gc_lock, gc_functions, vm_rss, ncalls>>

\* try_add's compare-and-retry: false when the value read does not admit
\* the bytes (try_consume then calls try_gc_memory); otherwise the
\* compare-and-swap, which adds if the counter still has the value read
\* and reads again if it has not.
TryAdd(t) ==
    LET f == th[t]
        tracker == all_ancestors[f.self][f.i]
    IN
    /\ f.pc = "try_add"
    /\ IF ~TryAddOk(f.cur, f.bytes, limit[tracker])
         THEN /\ UNCHANGED consumption
              /\ Goto(t, [EnterGc(f, tracker, "tc_after_gc") EXCEPT !.cur = 0])
         ELSE IF consumption[tracker] = f.cur
           THEN /\ consumption' = CounterAdd(consumption, tracker, f.bytes)
                /\ IF f.i > 1 THEN Goto(t, [f EXCEPT !.pc = "tc_walk", !.i = @ - 1, !.cur = 0])
                              ELSE Return(t, f, OK)
           ELSE /\ UNCHANGED consumption
                /\ Goto(t, [f EXCEPT !.cur = consumption[tracker]])
    /\ UNCHANGED <<treeVars, untracked_mem, gc_lock, gc_functions, vm_rss, ncalls>>

\* The rollback loop: for (j = size - 1; j > i; --j).
RollbackFirst_SkipRoot(n) == Len(all_ancestors[n]) - 1
RollbackFirst(n) == Len(all_ancestors[n])
RollbackGoesOn_Inclusive(j, i) == j >= i
RollbackGoesOn(j, i) == j > i

\* if (!st): the Status of try_gc_memory is an error.
GcFailed_Always(st) == TRUE
GcFailed(st) == st # OK

\* if (!st) roll back and return st; otherwise retry try_add.
TcAfterGc(t) ==
    LET f == th[t] IN
    /\ f.pc = "tc_after_gc"
    /\ IF GcFailed(f.st)
         THEN IF RollbackGoesOn(RollbackFirst(f.self), f.i)
                THEN Goto(t, [f EXCEPT !.pc = "tc_rollback", !.j = RollbackFirst(f.self)])
                ELSE Return(t, f, f.st)
         ELSE Goto(t, [f EXCEPT !.pc = "tc_walk"])
    /\ Local

\* One iteration of the rollback: _all_ancestors[j]->_consumption->add(-bytes).
TcRollback(t) ==
    LET f == th[t] IN
    /\ f.pc = "tc_rollback"
    /\ consumption' = CounterAdd(consumption, all_ancestors[f.self][f.j], -f.bytes)
    /\ IF RollbackGoesOn(f.j - 1, f.i)
         THEN Goto(t, [f EXCEPT !.j = @ - 1])
         ELSE Return(t, f, f.st)
    /\ UNCHANGED <<treeVars, untracked_mem, gc_lock, gc_functions, vm_rss, ncalls>>

\* check_limit's test: current_value() + bytes < tracker->limit().
CheckOk_NoBytes(cur, bytes, lim) == cur < lim
CheckOk_OrEqual(cur, bytes, lim) == cur + bytes <= lim
CheckOk(cur, bytes, lim) == cur + bytes < lim

\* One iteration of check_limit's walk over _limited_ancestors.
ClWalk(t) ==
    LET f == th[t]
        tracker == limited_ancestors[f.self][f.i]
    IN
    /\ f.pc = "cl_walk"
    /\ IF CheckOk(consumption[tracker], f.bytes, limit[tracker])
         THEN IF f.i > 1 THEN Goto(t, [f EXCEPT !.i = @ - 1])
                         ELSE Return(t, f, OK)
         ELSE Goto(t, EnterGc(f, tracker, "cl_after_gc"))
    /\ Local

\* RETURN_IF_ERROR(tracker->try_gc_memory(bytes)), else test again.
ClAfterGc(t) ==
    LET f == th[t] IN
    /\ f.pc = "cl_after_gc"
    /\ IF f.st # OK THEN Return(t, f, f.st)
                    ELSE Goto(t, [f EXCEPT !.pc = "cl_walk"])
    /\ Local

\* ------------------------------------------------------------ GC protocol
\* try_gc_memory(bytes) is gc_memory(limit - bytes) turned into a Status.
\* gc_memory(max_consumption) takes _gc_lock.
LockFree_Always(n) == TRUE
LockFree(n) == gc_lock[n] = 0

GcLock(t) ==
    LET f == th[t] IN
    /\ f.pc = "gc_lock"
    /\ LockFree(f.gcnode)
    /\ gc_lock' = [gc_lock EXCEPT ![f.gcnode] = t]
    /\ Goto(t, [f EXCEPT !.pc = "gc_check"])
    /\ UNCHANGED <<treeVars, consumption, untracked_mem, gc_functions, vm_rss, ncalls>>

\* Whether max_consumption is exceeded: consumption is higher.
GcExceeded_Always(cur, max) == TRUE
GcExceeded_OrEqual(cur, max) == cur >= max
GcExceeded(cur, max) == cur > max

\* Callbacks are called only if consumption is higher than max_consumption.
GcCheck(t) ==
    LET f == th[t] IN
    /\ f.pc = "gc_check"
    /\ IF GcExceeded(consumption[f.gcnode], f.gcmax)
         THEN Goto(t, [f EXCEPT !.pc = "gc_loop", !.k = 1])
         ELSE Goto(t, [f EXCEPT !.pc = "gc_done"])
    /\ Local

\* add_gc_function(f): _gc_functions.push_back(f).
PushBack_Front(s, e) == <<e>> \o s
PushBack(s, e) == Append(s, e)

\* A callback is registered on tracker n while no call is in flight; it
\* holds no memory.  Its id is its registration number on the tracker.
AddGcFunction(n) ==
    /\ \A t \in Threads : th[t].pc \in {"idle", "done"}
    /\ Len(gc_functions[n]) < MaxGc
    /\ gc_functions' = [gc_functions EXCEPT ![n] =
                           PushBack(@, [id |-> Len(@) + 1, pool |-> 0])]
    /\ UNCHANGED <<treeVars, consumption, untracked_mem, gc_lock, vm_rss, th,
                   ncalls, hist>>

\* The next callback, in the order of _gc_functions, unless the earlier
\* ones freed enough.  A callback frees what it holds and releases it on
\* the tracker it is registered on.
GcLoop(t) ==
    LET f == th[t]
        fns == gc_functions[f.gcnode]
    IN
    /\ f.pc = "gc_loop"
    /\ IF f.k > Len(fns) \/ (f.k > 1 /\ ~GcExceeded(consumption[f.gcnode], f.gcmax))
         THEN /\ Goto(t, [f EXCEPT !.pc = "gc_done", !.k = 0])
              /\ UNCHANGED gc_functions
         ELSE /\ gc_functions' = [gc_functions EXCEPT ![f.gcnode][f.k].pool = 0]
              /\ IF fns[f.k].pool = 0
                   THEN Goto(t, [f EXCEPT !.k = @ + 1, !.inv = Append(@, fns[f.k].id)])
                   ELSE Goto(t, [EnterConsume(f, f.gcnode, -fns[f.k].pool, "gc_loop")
                                   EXCEPT !.k = @ + 1, !.inv = Append(@, fns[f.k].id),
                                          !.freed = AddOnChain(@, f.gcnode, fns[f.k].pool)])
    /\ UNCHANGED <<treeVars, consumption, untracked_mem, gc_lock, vm_rss, ncalls>>

\* The value of gc_memory: whether max_consumption is still exceeded.
GcTrue == [code |-> "true", tracker |-> 0]
GcFalse == [code |-> "false", tracker |-> 0]

\* gc_memory(max_consumption) called from outside the gate; the frame
\* keeps the argument in bytes.
CallGcMemory(t, n, max) ==
    /\ CanCall(t)
    /\ Goto(t, [Fresh("gc_memory", n, max) EXCEPT !.pc = "gc_lock", !.gcnode = n,
                                                !.gcmax = max, !.ret = "return"])
    /\ Issue

\* The end of gc_memory: release _gc_lock, report whether max_consumption
\* is still exceeded; try_gc_memory makes the limit-exceeded Status of it.
GcDone(t) ==
    LET f == th[t]
        exceeded == GcExceeded(consumption[f.gcnode], f.gcmax)
        st == IF exceeded THEN TrackerLimitExceeded(f.gcnode) ELSE OK
    IN
    /\ f.pc = "gc_done"
    /\ gc_lock' = [gc_lock EXCEPT ![f.gcnode] = 0]
    /\ IF f.ret = "return"
         THEN Return(t, f, IF exceeded THEN GcTrue ELSE GcFalse)
         ELSE Goto(t, [f EXCEPT !.pc = f.ret, !.st = st, !.gcnode = 0, !.gcmax = 0,
                                !.ret = "none", !.inv = <<>>])
    /\ UNCHANGED <<treeVars, consumption, untracked_mem, gc_functions, vm_rss, ncalls>>

\* ------------------------------------- cache_consume_local / transfer_to
\* The frame entering cache_consume_local(b) on tracker n: the first step
\* is add_untracked_mem's `_untracked_mem += bytes`.
EnterCache(f, n, b, r) ==
    [f EXCEPT !.pc = "um_add", !.cnode = n, !.delta = b, !.ci = 0, !.cret = r,
              !.consume_bytes = 0]

\* cache_consume_local(bytes): if (bytes == 0) return;
CallCacheConsumeLocal(t, n, b) ==
    /\ CanCall(t)
    /\ LET f == Fresh("cache_consume_local", n, b) IN
       /\ th' = Upd(t, IF b = 0 THEN Done(f, OK) ELSE EnterCache(f, n, b, "return"))
       /\ hist' = [hist EXCEPT !.passed[n] = @ + b]
    /\ Issue

\* transfer_to(size, dst): cache_consume_local(-size), then
\* dst->cache_consume_local(size).
CallTransferTo(t, n, size, dst) ==
    /\ CanCall(t)
    /\ LET f == [Fresh("transfer_to", n, size) EXCEPT !.dst = dst] IN
       /\ th' = Upd(t, IF -size = 0 THEN Done(f, OK)
                                    ELSE EnterCache(f, n, -size, "transfer_dst"))
       /\ hist' = [hist EXCEPT !.passed =
                      [a \in Nodes |-> @[a] + (IF a = dst THEN size ELSE 0)
                                            - (IF a = n THEN size ELSE 0)]]
    /\ Issue

\* The return of cache_consume_local in frame f: to the caller, or to the
\* second half of transfer_to.
CacheReturn(t, f) ==
    IF f.cret = "transfer_dst"
      THEN Goto(t, EnterCache(f, f.dst, f.bytes, "return"))
      ELSE Return(t, f, OK)

\* add_untracked_mem: _untracked_mem += bytes;
UmAdd(t) ==
    LET f == th[t] IN
    /\ f.pc = "um_add"
    /\ untracked_mem' = [untracked_mem EXCEPT ![f.cnode] = @ + f.delta]
    /\ Goto(t, [f EXCEPT !.pc = "um_test"])
    /\ UNCHANGED <<treeVars, consumption, gc_lock, gc_functions, vm_rss, ncalls>>

\* The flush test: std::abs(_untracked_mem) >= mem_tracker_consume_min_size_bytes.
FlushDue(u) == Abs(u) >= mem_tracker_consume_min_size_bytes

\* add_untracked_mem: the test of the accumulator; `return 0` leaves
\* consume_bytes 0 and cache_consume_local returns.
UmTest(t) ==
    LET f == th[t] IN
    /\ f.pc = "um_test"
    /\ IF FlushDue(untracked_mem[f.cnode])
         THEN Goto(t, [f EXCEPT !.pc = "um_xchg"])
         ELSE CacheReturn(t, f)
    /\ Local

\* What _untracked_mem.exchange(0) leaves in the accumulator that held u.
AfterExchange_Load(u) == u
AfterExchange(u) == 0

\* add_untracked_mem: return _untracked_mem.exchange(0), one atomic step
\* that returns the value it replaces; then cache_consume_local's
\* `if (consume_bytes != 0)`.
UmXchg(t) ==
    LET f == th[t]
        drained == untracked_mem[f.cnode]
    IN
    /\ f.pc = "um_xchg"
    /\ untracked_mem' = [untracked_mem EXCEPT ![f.cnode] = AfterExchange(drained)]
    /\ th' = Upd(t, IF drained # 0
                      THEN [f EXCEPT !.pc = "ccl_loop", !.ci = 1, !.consume_bytes = drained]
                      ELSE IF f.cret = "transfer_dst"
                             THEN EnterCache(f, f.dst, f.bytes, "return")
                             ELSE Done(f, OK))
    /\ hist' = [hist EXCEPT !.drained[f.cnode] = @ + drained]
    /\ UNCHANGED <<treeVars, consumption, gc_lock, gc_functions, vm_rss, ncalls>>

\* What the flush loop adds to a tracker: the code adds `bytes`, the
\* argument of this call, and not consume_bytes, the drained value.
FlushAmount(bytes, consume_bytes) == bytes

\* The flush loop stops at the tracker labelled "Process".
FlushStops_Never(tracker) == FALSE
FlushStops(tracker) == label[tracker] = "Process"

\* One iteration of the flush loop of cache_consume_local.
CclLoop(t) ==
    LET f == th[t]
        tracker == all_ancestors[f.cnode][f.ci]
    IN
    /\ f.pc = "ccl_loop"
    /\ IF FlushStops(tracker)
         THEN /\ UNCHANGED consumption
              /\ CacheReturn(t, f)
         ELSE /\ consumption' = CounterAdd(consumption, tracker,
                                           FlushAmount(f.delta, f.consume_bytes))
              /\ IF f.ci < Len(all_ancestors[f.cnode])
                   THEN Goto(t, [f EXCEPT !.ci = @ + 1])
                   ELSE CacheReturn(t, f)
    /\ UNCHANGED <<treeVars, untracked_mem, gc_lock, gc_functions, vm_rss, ncalls>>

\* ----------------------------------------------------------------- queries
\* The frame of a query that has returned the integer v.
DoneVal(f, v) == [Done(f, OK) EXCEPT !.val = v]

\* Thread t returns the integer v from the query of frame f.
ReturnVal(t, f, v) ==
    /\ th' = Upd(t, DoneVal(f, v))
    /\ UNCHANGED hist

\* A bool returned by a query.
BoolValue(b) == IF b THEN GcTrue ELSE GcFalse

\* limit_exceeded(): one read of the counter.
CallLimitExceeded(t, n) ==
    /\ CanCall(t)
    /\ Return(t, Fresh("limit_exceeded", n, 0), BoolValue(limit_exceeded(n)))
    /\ Issue

\* The trackers any_limit_exceeded() looks at: _limited_ancestors.
AnyLimitOver_AllAncestors(n) == all_ancestors[n]
AnyLimitOver(n) == limited_ancestors[n]

\* any_limit_exceeded(): the loop; with nothing to look at, return false.
CallAnyLimitExceeded(t, n) ==
    /\ CanCall(t)
    /\ LET f == Fresh("any_limit_exceeded", n, 0) IN
       IF Len(AnyLimitOver(n)) = 0
         THEN Return(t, f, GcFalse)
         ELSE Goto(t, [f EXCEPT !.pc = "ale_loop", !.ci = 1])
    /\ Issue

\* if (tracker->limit_exceeded()) return true; after the loop return false.
AleLoop(t) ==
    LET f == th[t]
        tracker == AnyLimitOver(f.self)[f.ci]
    IN
    /\ f.pc = "ale_loop"
    /\ IF limit_exceeded(tracker) THEN Return(t, f, GcTrue)
       ELSE IF f.ci < Len(AnyLimitOver(f.self)) THEN Goto(t, [f EXCEPT !.ci = @ + 1])
       ELSE Return(t, f, GcFalse)
    /\ Local

\* std::min
Min(a, b) == IF a < b THEN a ELSE b

\* spare_capacity(): the least limit - consumption over _limited_ancestors,
\* starting from the largest int64.
CallSpareCapacity(t, n) ==
    /\ CanCall(t)
    /\ LET f == Fresh("spare_capacity", n, 0) IN
       IF Len(limited_ancestors[n]) = 0
         THEN ReturnVal(t, f, INT64_MAX)
         ELSE Goto(t, [f EXCEPT !.pc = "sc_loop", !.ci = 1, !.val = INT64_MAX])
    /\ Issue

\* What a limited ancestor has left: limit() - consumption().
MemLeft_Abs(tracker) == Abs(limit[tracker] - consumption[tracker])
MemLeft(tracker) == limit[tracker] - consumption[tracker]

ScLoop(t) ==
    LET f == th[t]
        tracker == limited_ancestors[f.self][f.ci]
        result == Min(f.val, MemLeft(tracker))
    IN
    /\ f.pc = "sc_loop"
    /\ IF f.ci < Len(limited_ancestors[f.self])
         THEN Goto(t, [f EXCEPT !.ci = @ + 1, !.val = result])
         ELSE ReturnVal(t, f, result)
    /\ Local

\* What get_lowest_limit() returns when no ancestor has a limit.
NoLimit_Max == INT64_MAX
NoLimit == -1

\* get_lowest_limit(): the least limit over _limited_ancestors.
CallGetLowestLimit(t, n) ==
    /\ CanCall(t)
    /\ LET f == Fresh("get_lowest_limit", n, 0) IN
       IF Len(limited_ancestors[n]) = 0
         THEN ReturnVal(t, f, NoLimit)
         ELSE Goto(t, [f EXCEPT !.pc = "ll_loop", !.ci = 1, !.val = INT64_MAX])
    /\ Issue

LlLoop(t) ==
    LET f == th[t]
        tracker == limited_ancestors[f.self][f.ci]
        min_limit == Min(f.val, limit[tracker])
    IN
    /\ f.pc = "ll_loop"
    /\ IF f.ci < Len(limited_ancestors[f.self])
         THEN Goto(t, [f EXCEPT !.ci = @ + 1, !.val = min_limit])
         ELSE ReturnVal(t, f, min_limit)
    /\ Local

\* ------------------------------------------- construction, destruction
\* No thread is constructing or destroying tracker n.
Settled(n) ==
    \A u \in Threads :
        ~(th[u].op \in {"create", "destroy"} /\ th[u].self = n
            /\ th[u].pc \notin {"idle", "done"})

\* No thread is in a call on tracker n or towards it, and no constructor
\* holds it as the parent of the tracker it constructs.
Unused(n) ==
    \A u \in Threads :
        th[u].pc \in {"idle", "done"} \/ (th[u].self # n /\ th[u].dst # n)

\* The label given to the trackers constructed in a run.
CreatedLabel == "Query"

\* MemTrackerLimiter(byte_limit, label, parent): the members are set and
\* the walk up the _parent links fills _all_ancestors and
\* _limited_ancestors; then the tracker is linked into the child list of
\* its parent, under the parent's lock.  The frame keeps the parent in dst
\* and the limit in bytes.
CallCreate(t, n, p, lim) ==
    /\ CanCall(t)
    /\ n \notin live /\ Settled(n)
    /\ p \in live /\ Settled(p)
    /\ parent' = [parent EXCEPT ![n] = p]
    /\ label' = [label EXCEPT ![n] = CreatedLabel]
    /\ limit' = [limit EXCEPT ![n] = lim]
    /\ all_ancestors' = [all_ancestors EXCEPT ![n] = Chain(parent', n)]
    /\ limited_ancestors' = [limited_ancestors EXCEPT ![n] = LimitedOf(parent', limit', n)]
    /\ th' = Upd(t, [Fresh("create", n, lim) EXCEPT !.dst = p, !.pc = "ctor_lock"])
    /\ ncalls' = ncalls + 1
    /\ UNCHANGED <<live, child_tracker_limiters, had_child_count,
                   child_tracker_limiter_lock, consumption, untracked_mem, gc_lock,
                   gc_functions, vm_rss, hist>>

\* std::lock_guard<std::mutex> l(_parent->_child_tracker_limiter_lock)
ChildLockFree_Always(n) == TRUE
ChildLockFree(n) == child_tracker_limiter_lock[n] = 0

\* A step of a constructor or destructor on the child list of a parent.
OnRegistry ==
    UNCHANGED <<parent, label, limit, all_ancestors, limited_ancestors, live,
                consumption, untracked_mem, gc_lock, gc_functions, vm_rss, ncalls>>

\* The constructor or destructor of thread t takes the lock of the parent.
RegLock(t) ==
    LET f == th[t] IN
    /\ f.pc \in {"ctor_lock", "dtor_lock"}
    /\ ChildLockFree(f.dst)
    /\ child_tracker_limiter_lock' = [child_tracker_limiter_lock EXCEPT ![f.dst] = t]
    /\ Goto(t, [f EXCEPT !.pc = IF f.pc = "ctor_lock" THEN "ctor_read" ELSE "dtor_read"])
    /\ UNCHANGED <<child_tracker_limiters, had_child_count>>
    /\ OnRegistry

\* The insertion and the removal first read the list.
RegRead(t) ==
    LET f == th[t] IN
    /\ f.pc \in {"ctor_read", "dtor_read"}
    /\ Goto(t, [f EXCEPT !.pc = IF f.pc = "ctor_read" THEN "ctor_insert" ELSE "dtor_erase",
                          !.kids = child_tracker_limiters[f.dst]])
    /\ UNCHANGED <<child_tracker_limiters, had_child_count, child_tracker_limiter_lock>>
    /\ OnRegistry

\* The constructor inserts the tracker at the end of the parent's list.
CtorInsert(t) ==
    LET f == th[t] IN
    /\ f.pc = "ctor_insert"
    /\ child_tracker_limiters' = [child_tracker_limiters EXCEPT ![f.dst] = Append(f.kids, f.self)]
    /\ Goto(t, [f EXCEPT !.pc = "ctor_count", !.kids = <<>>])
    /\ UNCHANGED <<had_child_count, child_tracker_limiter_lock>>
    /\ OnRegistry

\* What a construction does to the count of children ever added.
Counted_Reset(c) == 1
Counted(c) == c + 1

\* The constructor counts the child on the parent: _had_child_count++.
CtorCount(t) ==
    LET f == th[t] IN
    /\ f.pc = "ctor_count"
    /\ had_child_count' = [had_child_count EXCEPT ![f.dst] = Counted(@)]
    /\ Goto(t, [f EXCEPT !.pc = "ctor_unlock"])
    /\ UNCHANGED <<child_tracker_limiters, child_tracker_limiter_lock>>
    /\ OnRegistry

\* The end of the constructor: the lock is released and the tracker is
\* live.
CtorUnlock(t) ==
    LET f == th[t] IN
    /\ f.pc = "ctor_unlock"
    /\ child_tracker_limiter_lock' = [child_tracker_limiter_lock EXCEPT ![f.dst] = 0]
    /\ live' = live \cup {f.self}
    /\ Return(t, f, OK)
    /\ UNCHANGED <<parent, label, limit, all_ancestors, limited_ancestors,
                   child_tracker_limiters, had_child_count, consumption,
                   untracked_mem, gc_lock, gc_functions, vm_rss, ncalls>>

\* ~MemTrackerLimiter(): a tracker is destroyed when nothing holds it: it
\* has no child (a child holds its parent), no constructor has it as
\* parent and no call is in flight on it.  The root lives as long as the
\* process.
CallDestroy(t, n) ==
    /\ CanCall(t)
    /\ n \in live /\ Settled(n) /\ Unused(n)
    /\ parent[n] # NoParent
    /\ \A c \in live : parent[c] # n
    /\ live' = live \ {n}
    /\ th' = Upd(t, [Fresh("destroy", n, 0) EXCEPT !.dst = parent[n], !.pc = "dtor_lock"])
    /\ ncalls' = ncalls + 1
    /\ UNCHANGED <<parent, label, limit, all_ancestors, limited_ancestors,
                   child_tracker_limiters, had_child_count,
                   child_tracker_limiter_lock, consumption, untracked_mem, gc_lock,
                   gc_functions, vm_rss, hist>>

\* The list s without the tracker n: erase(_child_tracker_it).
Erase(s, n) == SelectSeq(s, LAMBDA c : c # n)

\* The destructor unlinks the tracker from the parent's list.
DtorErase(t) ==
    LET f == th[t] IN
    /\ f.pc = "dtor_erase"
    /\ child_tracker_limiters' = [child_tracker_limiters EXCEPT ![f.dst] = Erase(f.kids, f.self)]
    /\ Goto(t, [f EXCEPT !.pc = "dtor_unlock", !.kids = <<>>])
    /\ UNCHANGED <<had_child_count, child_tracker_limiter_lock>>
    /\ OnRegistry

\* The counters once tracker n is destroyed: nothing is released, the
\* counter of n itself is gone.
Destroyed_Releasing(c, n) ==
    [a \in Nodes |-> IF a = n THEN 0
                     ELSE IF a \in SeqSet(all_ancestors[n]) THEN c[a] - c[n] ELSE c[a]]
Destroyed(c, n) == [c EXCEPT ![n] = 0]

\* The end of the destructor: the lock is released and the tracker is
\* gone, its members with it.
DtorUnlock(t) ==
    LET f == th[t]
        n == f.self
    IN
    /\ f.pc = "dtor_unlock"
    /\ child_tracker_limiter_lock' = [child_tracker_limiter_lock EXCEPT ![f.dst] = 0]
    /\ consumption' = Destroyed(consumption, n)
    /\ parent' = [parent EXCEPT ![n] = NoParent]
    /\ limit' = [limit EXCEPT ![n] = -1]
    /\ all_ancestors' = [all_ancestors EXCEPT ![n] = <<>>]
    /\ limited_ancestors' = [limited_ancestors EXCEPT ![n] = <<>>]
    /\ child_tracker_limiters' = [child_tracker_limiters EXCEPT ![n] = <<>>]
    /\ had_child_count' = [had_child_count EXCEPT ![n] = 0]
    /\ untracked_mem' = [untracked_mem EXCEPT ![n] = 0]
    /\ gc_functions' = [gc_functions EXCEPT ![n] = <<>>]
    /\ Return(t, f, OK)
    /\ UNCHANGED <<label, live, gc_lock, vm_rss, ncalls>>

\* The steps of a constructor or destructor in flight of thread t.
TreeStep(t) ==
    \/ RegLock(t)
    \/ RegRead(t)
    \/ CtorInsert(t)
    \/ CtorCount(t)
    \/ CtorUnlock(t)
    \/ DtorErase(t)
    \/ DtorUnlock(t)

\* The environment: the resident memory of the process changes.
SetRss(v) ==
    /\ vm_rss # v
    /\ vm_rss' = v
    /\ UNCHANGED <<treeVars, consumption, untracked_mem, gc_lock, gc_functions,
                   th, ncalls, hist>>

\* ------------------------------------------------------ initial states
\* Labels: the usual tree (only the parentless tracker is "Process"), a
\* tree whose parentless tracker has another label, and a tree in which
\* tracker 2 is labelled "Process" as well.
LabelUsual == [n \in Nodes |-> IF n = 1 THEN "Process" ELSE "Query"]
LabelNone == [n \in Nodes |-> "Query"]
LabelInner == [n \in Nodes |-> IF n \in {1, 2} THEN "Process" ELSE "Query"]
LabelConfigs == {LabelUsual, LabelNone, LabelInner}

\* Limits (-1 is no limit): a limited leaf below a limited tracker, and a
\* limited parentless tracker above an unlimited one.
LimitInner == [n \in Nodes |-> CASE n = 2 -> 4 [] n = 3 -> 2 [] OTHER -> -1]
LimitRoot == [n \in Nodes |-> CASE n = 1 -> 3 [] n = 4 -> 3 [] OTHER -> -1]
LimitConfigs == {LimitInner, LimitRoot}

\* GC callbacks, by the bytes they hold, in the order of registration:
\* none; one on tracker 2 and one on tracker 3 that free nothing; one on
\* tracker 3 that holds one byte consumed on tracker 3.
GcNone == [n \in Nodes |-> <<>>]
GcIdle == [n \in Nodes |-> IF n \in {2, 3} THEN <<0>> ELSE <<>>]
GcFrees == [n \in Nodes |-> IF n = 3 THEN <<1>> ELSE <<>>]

RECURSIVE SumSeq(_)
SumSeq(s) == IF s = <<>> THEN 0 ELSE Head(s) + SumSeq(Tail(s))

\* What the callbacks hold has been consumed on their tracker's chain.
HeldByGc(p, g) ==
    [a \in Nodes |-> LET below == {n \in Nodes : a \in SeqSet(Chain(p, n))}
                         RECURSIVE Sum(_)
                         Sum(S) == IF S = {} THEN 0
                                   ELSE LET n == CHOOSE x \in S : TRUE
                                        IN SumSeq(g[n]) + Sum(S \ {n})
                     IN Sum(below)]

\* _gc_functions after the callbacks holding pools have been registered.
Registered(pools) == [k \in 1..Len(pools) |-> [id |-> k, pool |-> pools[k]]]

\* The state after construction of the tree with the given labels, limits
\* and callbacks.
InitWith(labels, limits, gcs) ==
    /\ parent = InitParent
    /\ label \in labels
    /\ limit \in limits
    /\ all_ancestors = [n \in Nodes |-> Chain(InitParent, n)]
    /\ limited_ancestors = [n \in Nodes |-> LimitedOf(InitParent, limit, n)]
    /\ live = Nodes
    /\ child_tracker_limiters = [n \in Nodes |-> ChildrenOf(InitParent, n)]
    /\ had_child_count = [n \in Nodes |-> Len(ChildrenOf(InitParent, n))]
    /\ child_tracker_limiter_lock = [n \in Nodes |-> 0]
    /\ \E g \in gcs :
          /\ gc_functions = [n \in Nodes |-> Registered(g[n])]
          /\ consumption = HeldByGc(InitParent, g)
    /\ untracked_mem = [n \in Nodes |-> 0]
    /\ gc_lock = [n \in Nodes |-> 0]
    /\ vm_rss = 0
    /\ th = [t \in Threads |-> Idle]
    /\ ncalls = 0
    /\ hist = HistInit

Bytes == (-MaxBytes)..MaxBytes
PosBytes == 1..MaxBytes

\* --------------------------------------------------------- specifications
\* The steps of the calls in flight of thread t.
GateStep(t) ==
    \/ SysCheck(t)
    \/ TcWalk(t)
    \/ TryAdd(t)
    \/ TcAfterGc(t)
    \/ TcRollback(t)
    \/ ClWalk(t)
    \/ ClAfterGc(t)
    \/ GcLock(t)
    \/ GcCheck(t)
    \/ GcLoop(t)
    \/ GcDone(t)
    \/ ConsumeStep(t)

\* One thread issues consume, release, try_consume and check_limit calls one
\* after the other while the resident memory of the process changes.
InitGate == InitWith(LabelConfigs, LimitConfigs, {GcIdle, GcFrees})
NextGate ==
    \/ \E n \in {2, 3}, b \in Bytes : CallTryConsume(1, n, b)
    \/ \E n \in {3, 4}, b \in PosBytes : CallCheckLimit(1, n, b)
    \/ \E n \in {3}, b \in 0..MaxBytes : CallConsume(1, n, b)
    \/ \E n \in {3}, b \in PosBytes : CallRelease(1, n, b)
    \/ \E v \in {0, mem_limit - 1} : SetRss(v)
    \/ GateStep(1)
SpecGate == InitGate /\ [][NextGate]_vars

\* ------------------------------------------------------------- C2
\* What the call of frame f has itself added to tracker n so far: the
\* change of the counter since the call was issued, the releases of the GC
\* callbacks it invoked left aside.
Charge(f, n) == consumption[n] - f.pre.c[n] + f.freed[n]

\* C2: exact rollback on failure.  In a sequential run, a try_consume(bytes
\* > 0) that fails at tracker A has, while it rolls back, charged exactly
\* the ancestors after A in the chain (nearer the root) that are not yet
\* rolled back, and never A or a tracker below it; when it has returned,
\* it has charged nothing, and the error names A, a gated ancestor of the
\* chain whose limit did not admit the bytes.
C2_ExactRollback ==
    LET f == th[1]
        chain == all_ancestors[f.self]
    IN
    (f.op = "try_consume" /\ f.bytes > 0) =>
      /\ f.pc = "tc_rollback" =>
            \A x \in 1..Len(chain) :
                Charge(f, chain[x]) = IF f.i < x /\ x <= f.j THEN f.bytes ELSE 0
      /\ (f.pc = "tc_rollback" \/ (f.pc = "done" /\ f.st.code = "TrackerLimitExceeded")) =>
            /\ f.st.tracker \in SeqSet(chain)
            /\ limit[f.st.tracker] >= 0 /\ label[f.st.tracker] # "Process"
            /\ consumption[f.st.tracker] + f.bytes >= limit[f.st.tracker]
            /\ f.pc = "tc_rollback" => chain[f.i] = f.st.tracker
      /\ (f.pc = "done" /\ f.st.code = "TrackerLimitExceeded") =>
            \A n \in Nodes : Charge(f, n) = 0

\* A try_consume on tracker 3 has failed at tracker 3 itself, after its two
\* ancestors had been charged and rolled back.
C2_Witness ==
    /\ th[1].pc = "done" /\ th[1].op = "try_consume" /\ th[1].bytes > 0
    /\ th[1].self = 3 /\ th[1].st = TrackerLimitExceeded(3)

\* -------------------------------------------------------- C4 and C5
\* The steps of a try_consume call in flight of thread t.
TryStep(t) ==
    \/ SysCheck(t)
    \/ TcWalk(t)
    \/ TryAdd(t)
    \/ TcAfterGc(t)
    \/ TcRollback(t)
    \/ GcLock(t)
    \/ GcCheck(t)
    \/ GcLoop(t)
    \/ GcDone(t)

\* One thread issues try_consume(bytes > 0) calls one after the other on
\* the usual tree, whose GC callbacks free nothing; the resident memory
\* stays low.  A thread that is in a call goes on running.
InitFair == InitWith({LabelUsual}, {LimitInner, LimitRoot}, {GcNone, GcIdle})
NextFair ==
    \/ \E n \in {2, 3, 4}, b \in PosBytes : CallTryConsume(1, n, b)
    \/ TryStep(1)
FairGate == InitFair /\ [][NextFair]_vars /\ WF_vars(TryStep(1))

\* Every limited non-root ancestor of n admits b more bytes.
AllAdmit(c, n, b) ==
    \A a \in SeqSet(all_ancestors[n]) :
        (limit[a] >= 0 /\ parent[a] # NoParent) => c[a] + b < limit[a]

\* C4: deterministic gate.  In a sequential run whose GC callbacks free
\* nothing and whose SysMemGuard check passes, a try_consume(b > 0) that has
\* returned has succeeded exactly if every limited non-root ancestor had
\* current_value + b < limit, and a call issued when some limited non-root
\* ancestor does not admit b returns with the limit-exceeded error.
C4_DeterministicGate ==
    /\ [](th[1].pc = "done" =>
            (th[1].st = OK <=> AllAdmit(th[1].pre.c, th[1].self, th[1].bytes)))
    /\ [](\A n \in Nodes, b \in PosBytes :
            (th[1].pc = "sys" /\ th[1].self = n /\ th[1].bytes = b
                /\ ~AllAdmit(consumption, n, b))
            => <>(th[1].pc = "done" /\ th[1].st.code = "TrackerLimitExceeded"))

\* C5: try_consume always completes: a call that has been issued returns.
C5_AlwaysCompletes == (th[1].pc = "sys") ~> (th[1].pc = "done")

\* ------------------------------------------------------------- C9
Zero == [n \in Nodes |-> 0]

\* C9: the physical-memory guard comes first.  The step of a
\* try_consume(bytes > 0) or check_limit(bytes > 0) that consults the guard
\* finds every counter as it was when the call was issued, and when
\* resident memory plus bytes exceeds the ceiling the call returns the
\* process-memory-exceeded error from that very step, with no counter
\* changed and no GC callback invoked.
C9_GuardFirst ==
    [][(th[1].pc = "sys" /\ th'[1] # th[1]) =>
          /\ th[1].op \in {"try_consume", "check_limit"} /\ th[1].bytes > 0
          /\ consumption = th[1].pre.c
          /\ vm_rss + th[1].bytes > mem_limit =>
                /\ th'[1].pc = "done"
                /\ th'[1].st = ProcessMemoryExceeded
                /\ consumption' = th[1].pre.c
                /\ gc_functions' = gc_functions
                /\ th'[1].freed = Zero]_vars

\* A try_consume on a tracker whose ancestors have limits and consumption
\* has been rejected by the guard, resident memory plus bytes being above
\* the ceiling.
C9_Witness ==
    /\ th[1].pc = "done" /\ th[1].op = "try_consume"
    /\ th[1].st = ProcessMemoryExceeded
    /\ vm_rss + th[1].bytes > mem_limit
    /\ consumption[2] > 0 /\ limit[2] >= 0

\* ------------------------------------------------------------- C10
\* The counters after delta has been added on the chain of tracker n to c.
AfterAdd(c, n, delta) ==
    [a \in Nodes |-> IF a \in SeqSet(all_ancestors[n]) THEN c[a] + delta ELSE c[a]]

\* C10: consume and release are unconditional.  In a sequential run, when
\* consume(bytes) has returned, every tracker of all_ancestors, the root
\* included, has bytes more than when the call was issued, whatever the
\* limits, and every other tracker has what it had; release(bytes) has
\* done what consume(-bytes) does; neither returns an error.
C10_Unconditional ==
    (th[1].pc = "done" /\ th[1].op \in {"consume", "release"}) =>
        /\ th[1].st = OK
        /\ consumption = AfterAdd(th[1].pre.c, th[1].self,
                                  IF th[1].op = "consume" THEN th[1].bytes
                                                          ELSE -th[1].bytes)

\* A consume has returned and left tracker 3 above its limit.
C10_Witness ==
    /\ th[1].pc = "done" /\ th[1].op = "consume" /\ th[1].bytes > 0
    /\ th[1].self = 3 /\ limit_exceeded(3)
    /\ consumption[1] = th[1].pre.c[1] + th[1].bytes

\* -------------------------------------------------------- C1 and C3
\* The bytes that the release calls in flight on tracker n are releasing.
Releasing(n) ==
    LET RECURSIVE Sum(_)
        Sum(S) == IF S = {} THEN 0
                  ELSE LET t == CHOOSE x \in S : TRUE
                       IN th[t].bytes + Sum(S \ {t})
    IN Sum({t \in Threads : th[t].op = "release" /\ th[t].self = n
                            /\ th[t].pc \notin {"idle", "done"}})

\* Two threads concurrently issue try_consume(bytes > 0) calls, thread 1
\* on tracker 3 and thread 2 on its sibling 4, which share the ancestors 2
\* and 1, and release bytes that a successful try_consume on the same
\* tracker has consumed.  The GC callbacks free nothing and the resident
\* memory stays low.
NodeOf(t) == t + 2
InitTry == InitWith(LabelConfigs, LimitConfigs, {GcIdle})
NextTry ==
    \/ \E t \in Threads, b \in PosBytes : CallTryConsume(t, NodeOf(t), b)
    \/ \E t \in Threads, b \in PosBytes :
          /\ hist.held[NodeOf(t)] - Releasing(NodeOf(t)) >= b
          /\ CallRelease(t, NodeOf(t), b)
    \/ \E t \in Threads : TryStep(t)
    \/ \E t \in Threads : ConsumeStep(t)
SpecTry == InitTry /\ [][NextTry]_vars

AllReturned == \A t \in Threads : th[t].pc \in {"idle", "done"}

\* C1: chain atomicity under concurrency.  Once every call has returned,
\* the counter of each tracker is its initial value (zero) plus the bytes
\* of the successful try_consume calls whose chain contains the tracker,
\* less the bytes released on such chains; a call that returned an error
\* has contributed nothing.
C1_ChainAtomicity == AllReturned => consumption = hist.expect

\* Both threads have returned, one from a successful try_consume and the
\* other from a failed one on another tracker, and the failed call was
\* issued while a charge of another call was on the root and not yet on
\* tracker 2.
C1_Witness ==
    /\ AllReturned
    /\ th[1].op = "try_consume" /\ th[1].st = OK /\ th[1].pc = "done"
    /\ th[2].op = "try_consume" /\ th[2].st.code = "TrackerLimitExceeded"
    /\ th[1].self # th[2].self
    /\ th[2].pre.c[1] # th[2].pre.c[2]

\* C3 as claimed: every non-root tracker with a limit stays within it.
C3_Original ==
    \A n \in Nodes :
        (parent[n] # NoParent /\ limit[n] >= 0) => consumption[n] <= limit[n]

\* C3: the limit is never overshot by gated consumption.  When counters
\* change only by try_consume and by release of bytes consumed before, and
\* limits are fixed, every tracker that try_consume gates (limit >= 0 and a
\* label other than "Process") has consumption <= limit in every state.
C3_NeverOvershot ==
    \A n \in Nodes :
        (limit[n] >= 0 /\ label[n] # "Process") => consumption[n] <= limit[n]

\* Two calls on the siblings 3 and 4 are both inside try_add on their
\* shared gated ancestor 2, both have read the same value of its counter,
\* and the limit admits only one of them.
C3_Witness ==
    /\ th[1].pc = "try_add" /\ th[2].pc = "try_add"
    /\ th[1].self = 3 /\ th[2].self = 4
    /\ th[1].bytes = 1 /\ th[2].bytes = 1
    /\ th[1].i = 2 /\ th[2].i = 2
    /\ limit[2] >= 0 /\ label[2] # "Process" /\ consumption[2] = limit[2] - 2
    /\ th[1].cur = consumption[2] /\ th[2].cur = consumption[2]

\* ------------------------------------------------------ C6, C7 and C8
\* The steps of a cache_consume_local, transfer_to or consume call in
\* flight of thread t.
BatchStep(t) ==
    \/ UmAdd(t)
    \/ UmTest(t)
    \/ UmXchg(t)
    \/ CclLoop(t)
    \/ ConsumeStep(t)

\* One thread issues cache_consume_local calls on the parentless tracker
\* and on the siblings 3 and 4, transfer_to calls from the parentless
\* tracker and from tracker 3 (to its sibling and to itself), and direct
\* consume calls, one after the other, on a tree whose parentless tracker
\* is labelled "Process" and on one where it is not.
InitBatch == InitWith({LabelUsual, LabelNone}, {LimitInner}, {GcNone})
NextBatch ==
    \/ \E n \in {1, 3, 4}, b \in Bytes : CallCacheConsumeLocal(1, n, b)
    \/ \E n \in {1, 3}, dst \in {3, 4}, size \in PosBytes : CallTransferTo(1, n, size, dst)
    \/ CallConsume(1, 2, MaxBytes)
    \/ BatchStep(1)
SpecBatch == InitBatch /\ [][NextBatch]_vars

InBatchCall(f) ==
    f.op \in {"cache_consume_local", "transfer_to"} /\ f.pc \notin {"idle", "done"}

\* C6 as claimed: whatever the labels, no step of a cache_consume_local or
\* transfer_to call changes the counter of the parentless tracker.
C6_Original ==
    [][InBatchCall(th[1]) => consumption'[1] = consumption[1]]_vars

\* C6: process-root isolation.  On a tree whose parentless tracker is
\* labelled "Process", no step of a cache_consume_local or transfer_to call
\* on any tracker, the root included, changes the root's counter, which
\* between calls is the sum of the direct consume deltas on chains through
\* the root.
C6_RootIsolation ==
    /\ [][(label[1] = "Process" /\ InBatchCall(th[1]))
            => consumption'[1] = consumption[1]]_vars
    /\ []((label[1] = "Process" /\ th[1].pc \in {"idle", "done"})
            => consumption[1] = hist.expect[1])

\* A cache_consume_local on the root itself, labelled "Process", has
\* drained the root's accumulator, and direct consumes have charged it.
C6_Witness ==
    /\ label[1] = "Process"
    /\ th[1].pc = "done" /\ th[1].op = "cache_consume_local" /\ th[1].self = 1
    /\ FlushDue(th[1].pre.u[1] + th[1].bytes)
    /\ untracked_mem[1] = 0
    /\ consumption[1] > 0

\* The non-root trackers of the chain of n.
NonRootChain(n) == {a \in SeqSet(all_ancestors[n]) : parent[a] # NoParent}

\* C7: a flush propagates the drained value.  On the usual tree, when a
\* cache_consume_local call that triggered a flush has returned, the
\* accumulator is zero and every non-root tracker of the chain has the
\* whole drained value more than before; and between calls, for a leaf,
\* counter plus accumulator is the sum of all bytes passed.
C7_FlushDrained ==
    (label = LabelUsual /\ th[1].pc = "done" /\ th[1].op = "cache_consume_local") =>
        /\ FlushDue(th[1].pre.u[th[1].self] + th[1].bytes) =>
              /\ untracked_mem[th[1].self] = 0
              /\ \A a \in NonRootChain(th[1].self) :
                    consumption[a] = th[1].pre.c[a] + th[1].pre.u[th[1].self] + th[1].bytes
        /\ \A n \in {3, 4} : consumption[n] + untracked_mem[n] = hist.passed[n]

\* C8: conservation under transfer.  On the usual tree, when
\* src.transfer_to(n, dst) has returned, every non-root ancestor common to
\* src and dst has, counter and the accumulators of src and dst together,
\* what it had before, and for the leaves src # dst counter plus
\* accumulator has changed by -n and +n.
C8_Conservation ==
    LET f == th[1]
        Pending(u) == u[f.self] + (IF f.dst # f.self THEN u[f.dst] ELSE 0)
    IN
    (label = LabelUsual /\ f.pc = "done" /\ f.op = "transfer_to") =>
        /\ \A a \in NonRootChain(f.self) \cap NonRootChain(f.dst) :
              consumption[a] + Pending(untracked_mem) = f.pre.c[a] + Pending(f.pre.u)
        /\ (f.self = 3 /\ f.dst = 4) =>
              /\ consumption[3] + untracked_mem[3] = f.pre.c[3] + f.pre.u[3] - f.bytes
              /\ consumption[4] + untracked_mem[4] = f.pre.c[4] + f.pre.u[4] + f.bytes

\* ------------------------------------------------------------- C11
\* Limits and GC callbacks of the reclaim runs.  Tracker 2 has limit 5 and
\* tracker 3 limit 3.  GcPools: two callbacks on tracker 2 holding 1 and 2
\* bytes and one on tracker 3 holding 2 bytes; GcTop: two callbacks on
\* tracker 2 holding 2 and 1 bytes.
LimitPools == [n \in Nodes |-> CASE n = 2 -> 5 [] n = 3 -> 3 [] OTHER -> -1]
GcPools == [n \in Nodes |-> CASE n = 2 -> <<1, 2>> [] n = 3 -> <<2>> [] OTHER -> <<>>]
GcTop == [n \in Nodes |-> IF n = 2 THEN <<2, 1>> ELSE <<>>]

\* One thread issues try_consume(bytes > 0) calls one after the other on
\* the trackers 3 and 4 of the usual tree, whose GC callbacks hold memory;
\* the resident memory stays low.  A thread that is in a call goes on
\* running.
ReclaimStep(t) == TryStep(t) \/ ConsumeStep(t)
InitReclaim == InitWith({LabelUsual}, {LimitPools}, {GcPools, GcTop})
NextReclaim ==
    \/ \E n \in {3, 4}, b \in PosBytes : CallTryConsume(1, n, b)
    \/ ReclaimStep(1)
FairReclaim == InitReclaim /\ [][NextReclaim]_vars /\ WF_vars(ReclaimStep(1))

\* The try_consume of frame f is back from try_gc_memory on the ancestor at
\* position i, whose callbacks have freed memory so that the counter plus
\* bytes is below the limit, and the gated ancestors below it admit bytes.
Rescued(f) ==
    LET chain == all_ancestors[f.self] IN
    /\ f.op = "try_consume" /\ f.pc = "tc_after_gc"
    /\ f.freed[chain[f.i]] > 0
    /\ consumption[chain[f.i]] + f.bytes < limit[chain[f.i]]
    /\ \A x \in 1..(f.i - 1) :
          (limit[chain[x]] >= 0 /\ label[chain[x]] # "Process")
              => consumption[chain[x]] + f.bytes < limit[chain[x]]

\* C11: GC rescues a gated allocation.  In a sequential run, when try_add
\* has failed on a limited ancestor and its GC callbacks have freed enough
\* that current_value + bytes is below the limit, try_consume retries and
\* returns success, every tracker of the chain charged exactly +bytes.
C11_GcRescues ==
    Rescued(th[1]) ~>
        (/\ th[1].pc = "done" /\ th[1].st = OK
         /\ \A a \in SeqSet(all_ancestors[th[1].self]) :
               Charge(th[1], a) = th[1].bytes)

\* A try_consume(2) on tracker 4 found tracker 2 at 4 of its limit 5, the
\* first callback of tracker 2 freed 2 bytes, and the call has succeeded.
C11_Witness ==
    /\ th[1].pc = "done" /\ th[1].op = "try_consume" /\ th[1].st = OK
    /\ th[1].self = 4 /\ th[1].bytes = 2
    /\ th[1].pre.c[2] = 4 /\ th[1].freed[2] = 2
    /\ consumption[2] = 4

\* ------------------------------------------------------------- C12
\* Two threads concurrently issue try_consume(bytes > 0) calls, thread 1
\* on tracker 3 and thread 2 on its sibling 4, on the usual tree whose GC
\* callbacks hold memory; the resident memory stays low.
InitPass == InitWith({LabelUsual}, {LimitPools}, {GcPools, GcTop})
NextPass ==
    \/ \E t \in Threads, b \in PosBytes : CallTryConsume(t, NodeOf(t), b)
    \/ \E t \in Threads : ReclaimStep(t)
SpecPass == InitPass /\ [][NextPass]_vars

\* Thread t is inside the reclaim-callback sequence of tracker n: past the
\* lock of gc_memory and not yet out of it, a callback's release included.
InPass(t, n) ==
    /\ th[t].gcnode = n
    /\ \/ th[t].pc \in {"gc_check", "gc_loop", "gc_done"}
       \/ th[t].pc = "consume" /\ th[t].cret = "gc_loop"

\* C12: GC passes are mutually exclusive per node.  In no state are two
\* threads inside the reclaim-callback sequence of the same tracker.
C12_MutualExclusion ==
    \A n \in Nodes : \A t1, t2 \in Threads :
        (InPass(t1, n) /\ InPass(t2, n)) => t1 = t2

\* Thread 1 is inside the callback sequence of tracker 2, one callback
\* invoked, while thread 2 waits for the lock of the same tracker.
C12_Witness ==
    /\ InPass(1, 2) /\ th[1].pc = "gc_loop" /\ Len(th[1].inv) = 1
    /\ th[2].pc = "gc_lock" /\ th[2].gcnode = 2

\* Passes on different trackers overlap: thread 1 is inside the callback
\* sequence of tracker 3 while thread 2 is inside that of tracker 2.
PassesOverlap ==
    /\ InPass(1, 3) /\ th[1].pc = "gc_loop"
    /\ InPass(2, 2) /\ th[2].pc = "gc_loop"

\* ------------------------------------------------------------- C13
\* C13: concurrent breaches collapse into one GC pass.  A thread that has
\* the lock of a tracker and finds, at the check of gc_memory, that the
\* counter is not above its target (another thread's pass has reclaimed
\* enough) goes to the end of the pass with no callback invoked and no
\* callback's memory touched; and a pass that ends with no callback
\* invoked has released nothing.
C13_OnePass ==
    [][\A t \in Threads :
          /\ (th[t].pc = "gc_check" /\ th'[t] # th[t]
                 /\ consumption[th[t].gcnode] <= th[t].gcmax)
              => /\ th'[t].pc = "gc_done" /\ th'[t].inv = <<>>
                 /\ gc_functions' = gc_functions
                 /\ consumption' = consumption
          /\ (th[t].pc = "gc_done" /\ th[t].inv = <<>> /\ th'[t] # th[t])
              => th'[t].freed = th[t].freed]_vars

\* Both threads breached the limit of tracker 2 before any callback ran:
\* thread 1 is back from its pass, which freed memory, and has not retried
\* yet; thread 2 then got the lock and is at the end of a pass in which it
\* invoked no callback, the counter now admitting its bytes.
C13_Witness ==
    /\ th[1].pc = "tc_after_gc" /\ th[1].i = 2 /\ th[1].freed[2] > 0
    /\ th[2].pc = "gc_done" /\ th[2].gcnode = 2 /\ th[2].inv = <<>>
    /\ consumption[2] + th[2].bytes < limit[2]

\* ------------------------------------------------------------- C14
\* One thread issues try_consume, check_limit and gc_memory calls one after
\* the other on the usual tree whose GC callbacks hold memory, and further
\* callbacks are registered between the calls; the resident memory stays
\* low.
MaxTargets == [n \in Nodes |-> 0..LimitPools[n]]
NextGc ==
    \/ \E n \in {3, 4}, b \in PosBytes : CallTryConsume(1, n, b)
    \/ \E n \in {3, 4}, b \in PosBytes : CallCheckLimit(1, n, b)
    \/ \E n \in {2, 3} : \E max \in MaxTargets[n] : CallGcMemory(1, n, max)
    \/ \E n \in {2, 3} : AddGcFunction(n)
    \/ GateStep(1)
SpecGc == InitReclaim /\ [][NextGc]_vars

\* Thread t is in the callback loop of a GC pass, a callback's release
\* included.
InLoop(f) == f.pc = "gc_loop" \/ (f.pc = "consume" /\ f.cret = "gc_loop")

\* C14: GC callbacks run in registration order and stop early.  The
\* callbacks invoked so far in a pass are the first, second, ... registered
\* on the tracker, each once and none skipped; and a callback after the
\* first is invoked only in a state where the counter is still above the
\* target of the pass.
C14_OrderedPass ==
    /\ [](\A x \in 1..Len(th[1].inv) : th[1].inv[x] = x)
    /\ [](th[1].gcnode \in Nodes => Len(th[1].inv) <= Len(gc_functions[th[1].gcnode]))
    /\ [][(InLoop(th[1]) /\ Len(th'[1].inv) > Len(th[1].inv) /\ Len(th[1].inv) >= 1)
            => consumption[th[1].gcnode] > th[1].gcmax]_vars

\* A pass on tracker 2, on which a third callback was registered after the
\* two that hold memory, has invoked the first callback only: it freed
\* enough, the pass is at its end and the other callbacks still hold
\* their memory.
C14_Witness ==
    /\ th[1].pc = "gc_done" /\ th[1].gcnode = 2 /\ th[1].inv = <<1>>
    /\ Len(gc_functions[2]) = 3
    /\ gc_functions[2][2].pool > 0

\* ------------------------------------------------------------- C15
\* Thread 1 leaves a GC pass entered through try_gc_memory.
LeavesTryGc == th[1].pc = "gc_done" /\ th[1].ret # "return" /\ th'[1] # th[1]

\* C15: the result of try_gc_memory.  try_gc_memory(bytes) returns success
\* exactly if after the pass the limit is not exceeded by the consumption
\* with the bytes (consumption + bytes <= limit), and the limit-exceeded
\* error of the tracker otherwise; try_consume and check_limit do not
\* retry after the error and return that very error.
C15_TryGcResult ==
    /\ [][LeavesTryGc =>
             /\ th'[1].st = OK
                  <=> consumption[th[1].gcnode] + th[1].bytes <= limit[th[1].gcnode]
             /\ th'[1].st # OK
                  => th'[1].st = [code |-> "TrackerLimitExceeded",
                                  tracker |-> th[1].gcnode]]_vars
    /\ [][(th[1].pc \in {"tc_after_gc", "cl_after_gc", "tc_rollback"}
              /\ th[1].st # OK /\ th'[1] # th[1])
            => /\ th'[1].pc \in {"tc_rollback", "done"}
               /\ th'[1].st = th[1].st
               /\ th[1].st.code = "TrackerLimitExceeded"]_vars

\* try_gc_memory(2) on tracker 2 has returned the limit-exceeded error to
\* try_consume after a pass in which callbacks were invoked: the
\* consumption of tracker 2 is within its limit, and with the 2 bytes it
\* is not.
C15_Witness ==
    /\ th[1].pc = "tc_after_gc" /\ th[1].op = "try_consume" /\ th[1].bytes = 2
    /\ th[1].st = [code |-> "TrackerLimitExceeded", tracker |-> 2]
    /\ consumption[2] <= limit[2]
    /\ consumption[2] + 2 > limit[2]

\* ------------------------------------------------------------- C16
\* C16: gc_memory(max_consumption).  In a sequential run, a gc_memory call
\* on a tracker invokes callbacks only if the consumption of the tracker
\* was higher than max_consumption when it was called, and when it has
\* returned its value is true exactly if the consumption is higher than
\* max_consumption.
C16_GcMemory ==
    th[1].op = "gc_memory" =>
        /\ Len(th[1].inv) > 0 => th[1].pre.c[th[1].self] > th[1].bytes
        /\ th[1].freed # Zero => th[1].pre.c[th[1].self] > th[1].bytes
        /\ th[1].pc = "done" =>
              /\ th[1].st \in {GcTrue, GcFalse}
              /\ th[1].st = GcTrue <=> consumption[th[1].self] > th[1].bytes

\* gc_memory(4) on tracker 2 at consumption 5 has returned false: the first
\* callback freed one byte, which brought the consumption to 4.
C16_Witness ==
    /\ th[1].pc = "done" /\ th[1].op = "gc_memory"
    /\ th[1].self = 2 /\ th[1].bytes = 4 /\ th[1].pre.c[2] = 5
    /\ th[1].st = GcFalse /\ th[1].freed[2] = 1 /\ consumption[2] = 4

\* ------------------------------------------------------------- C17
\* The steps of a check_limit or consume call in flight of thread t.
CheckStep(t) ==
    \/ SysCheck(t)
    \/ ClWalk(t)
    \/ ClAfterGc(t)
    \/ GcLock(t)
    \/ GcCheck(t)
    \/ GcLoop(t)
    \/ GcDone(t)
    \/ ConsumeStep(t)

\* One thread issues check_limit calls with positive, zero and negative
\* bytes, consume calls and try_consume calls with zero and negative
\* bytes one after the other, on the usual tree with limits on the
\* trackers 2 and 3 or on the root and tracker 4, whose GC callbacks hold
\* memory, while the resident memory of the process goes above the
\* ceiling and back.
InitCheck == InitWith({LabelUsual}, {LimitPools, LimitRoot}, {GcPools, GcTop})
NextCheck ==
    \/ \E n \in {3, 4}, b \in Bytes : CallCheckLimit(1, n, b)
    \/ \E n \in {3, 4}, b \in PosBytes : CallConsume(1, n, b)
    \/ \E n \in {3, 4}, b \in (-MaxBytes)..0 : CallTryConsume(1, n, b)
    \/ \E v \in {0, mem_limit + MaxBytes} : SetRss(v)
    \/ CheckStep(1)
SpecCheck == InitCheck /\ [][NextCheck]_vars

\* C17: check_limit is non-mutating.  No step of a check_limit call other
\* than the release of a GC callback changes a counter, so that outside
\* such a release, and when the call has returned with success or with an
\* error, every counter is what it was when the call was issued less what
\* the callbacks have released; and check_limit(bytes <= 0) returns success
\* in the step that issues it, whatever the resident memory, the limits
\* and the callbacks, with no counter, callback or lock touched.
C17_NonMutating ==
    /\ [][(th[1].op = "check_limit" /\ th[1].pc \notin {"consume", "idle", "done"})
            => consumption' = consumption]_vars
    /\ []((th[1].op = "check_limit" /\ th[1].pc # "consume")
            => \A n \in Nodes : consumption[n] = th[1].pre.c[n] - th[1].freed[n])
    /\ [][(ncalls' # ncalls /\ th'[1].op = "check_limit" /\ th'[1].bytes <= 0)
            => /\ th'[1].pc = "done" /\ th'[1].st = OK
               /\ consumption' = consumption
               /\ gc_functions' = gc_functions
               /\ gc_lock' = gc_lock]_vars

\* A check_limit(2) on tracker 3 has returned the limit-exceeded error of
\* tracker 2 after both callbacks of tracker 2 released their memory: the
\* counters are lower than before by what was released and by nothing
\* else.
C17_Witness ==
    /\ th[1].pc = "done" /\ th[1].op = "check_limit" /\ th[1].self = 3
    /\ th[1].bytes = 2
    /\ th[1].st = [code |-> "TrackerLimitExceeded", tracker |-> 2]
    /\ th[1].freed[2] = 3
    /\ consumption[2] = th[1].pre.c[2] - 3

\* ------------------------------------------------------------- C18
\* The limited ancestors of tracker n, as the claim names them: the
\* trackers of its chain with limit >= 0, the root excepted, in the order
\* of the chain (n first).
LimitedChain(n) ==
    SelectSeq(all_ancestors[n], LAMBDA a : limit[a] >= 0 /\ parent[a] # NoParent)

\* Tracker a has room for b more bytes.
Admits(a, b) == consumption[a] + b < limit[a]

\* The position of tracker a among the limited ancestors of tracker n.
LimitedPos(n, a) == CHOOSE x \in 1..Len(LimitedChain(n)) : LimitedChain(n)[x] = a

\* The limited ancestors of the tracker of frame f nearer the root than
\* position x all have room for the bytes of f.
AboveAdmit(f, x) ==
    \A y \in (x + 1)..Len(LimitedChain(f.self)) :
        Admits(LimitedChain(f.self)[y], f.bytes)

\* C18: check_limit result and order.  In a sequential run of
\* check_limit(bytes > 0): GC runs only on limited ancestors; while the
\* ancestor at position i is examined, every limited ancestor nearer the
\* root has current_value + bytes < limit; a call that has returned
\* success finds this of every limited ancestor (the root's own limit
\* playing no part); a call that has returned a limit-exceeded error names
\* a limited ancestor A with current_value + bytes >= limit, every limited
\* ancestor nearer the root having room, and it returned in the step after
\* A's try_gc_memory failed, no ancestor below A examined.
C18_ResultAndOrder ==
    /\ []((th[1].op = "check_limit" /\ th[1].gcnode # 0)
            => th[1].gcnode \in SeqSet(LimitedChain(th[1].self)))
    /\ []((th[1].op = "check_limit" /\ th[1].pc \notin {"sys", "done"})
            => /\ th[1].i \in 1..Len(LimitedChain(th[1].self))
               /\ AboveAdmit(th[1], th[1].i))
    /\ []((th[1].op = "check_limit" /\ th[1].pc = "done" /\ th[1].bytes > 0
              /\ th[1].st = OK)
            => AboveAdmit(th[1], 0))
    /\ []((th[1].op = "check_limit" /\ th[1].pc = "done"
              /\ th[1].st.code = "TrackerLimitExceeded")
            => /\ th[1].st.tracker \in SeqSet(LimitedChain(th[1].self))
               /\ ~Admits(th[1].st.tracker, th[1].bytes)
               /\ AboveAdmit(th[1], LimitedPos(th[1].self, th[1].st.tracker)))
    /\ [][(th[1].op = "check_limit" /\ th[1].pc = "cl_after_gc" /\ th[1].st # OK
              /\ th'[1] # th[1])
            => /\ th'[1].pc = "done"
               /\ th'[1].st = [code |-> "TrackerLimitExceeded",
                               tracker |-> LimitedChain(th[1].self)[th[1].i]]]_vars

\* A check_limit(2) on tracker 3 has returned the limit-exceeded error of
\* tracker 3: the limited ancestor nearer the root, tracker 2, has room for
\* the bytes, tracker 3 has not.
C18_Witness ==
    /\ th[1].pc = "done" /\ th[1].op = "check_limit"
    /\ th[1].self = 3 /\ th[1].bytes = 2
    /\ th[1].st = [code |-> "TrackerLimitExceeded", tracker |-> 3]
    /\ consumption[2] + 2 < limit[2]
    /\ consumption[3] + 2 >= limit[3]

\* ------------------------------------------------------------- C19
\* C19: non-positive try_consume is a release.  A try_consume(bytes <= 0)
\* never reaches the guard, a limit test or a GC pass: it is in the loop
\* of consume or has returned; when it has returned, the status is OK, no
\* callback has released anything, and every tracker of the chain has
\* -bytes less than when the call was issued, every other tracker what
\* it had, which is what release(-bytes) does; with bytes == 0 it returns
\* in the step that issues it and changes nothing.
C19_NonPositiveIsRelease ==
    /\ []((th[1].op = "try_consume" /\ th[1].bytes <= 0)
            => /\ th[1].pc \in {"consume", "done"}
               /\ th[1].gcnode = 0 /\ th[1].freed = Zero
               /\ th[1].pc = "done"
                    => /\ th[1].st = OK
                       /\ consumption = AfterAdd(th[1].pre.c, th[1].self,
                                                 -(-th[1].bytes)))
    /\ [][(ncalls' # ncalls /\ th'[1].op = "try_consume" /\ th'[1].bytes = 0)
            => /\ th'[1].pc = "done" /\ th'[1].st = OK
               /\ consumption' = consumption
               /\ gc_functions' = gc_functions]_vars

\* A try_consume(-1) on tracker 3, issued with the resident memory above
\* the ceiling, has returned: trackers 3, 2 and the root have 1 byte
\* less, tracker 3 is now below zero and tracker 2 is still above its
\* limit.
C19_Witness ==
    /\ th[1].pc = "done" /\ th[1].op = "try_consume"
    /\ th[1].self = 3 /\ th[1].bytes = -1
    /\ vm_rss + th[1].bytes >= mem_limit
    /\ consumption[1] = th[1].pre.c[1] - 1
    /\ consumption[3] < 0
    /\ limit_exceeded(2)

\* ------------------------------------------------------------- C20
\* The try_consume(bytes > 0) of frame f treats the trackers of the set
\* Exempt as exempt and gates the other trackers with a limit: no GC pass
\* runs on an exempt tracker and no error names one, and when the call
\* has returned success every other tracker of its chain with a limit is
\* below its limit.
ExemptionIs(f, Exempt) ==
    (f.op = "try_consume" /\ f.bytes > 0) =>
        /\ f.gcnode \notin Exempt
        /\ f.st.code = "TrackerLimitExceeded" => f.st.tracker \notin Exempt
        /\ (f.pc = "done" /\ f.st = OK) =>
              \A a \in SeqSet(all_ancestors[f.self]) \ Exempt :
                  limit[a] >= 0 => consumption[a] < limit[a]

\* C20 as claimed: the exempt tracker is the parentless one, whatever the
\* labels.
C20_Original == ExemptionIs(th[1], {n \in Nodes : parent[n] = NoParent})

\* C20: exemption in try_consume.  The trackers labelled "Process" are the
\* exempt ones: try_consume charges them in one unconditional step, never
\* fails because of their limit and never runs GC on them; every tracker
\* with limit >= 0 and another label, the root included, is gated.
C20_LabelExemption ==
    /\ [] ExemptionIs(th[1], {n \in Nodes : label[n] = "Process"})
    /\ [][(th[1].pc = "tc_walk" /\ th'[1] # th[1]
              /\ label[all_ancestors[th[1].self][th[1].i]] = "Process")
            => consumption' = CounterAdd(consumption,
                                         all_ancestors[th[1].self][th[1].i],
                                         th[1].bytes)]_vars

\* A try_consume has succeeded on a tree whose root, labelled "Process",
\* has a limit: the root is charged beyond its limit.
C20_Witness ==
    /\ th[1].pc = "done" /\ th[1].op = "try_consume" /\ th[1].bytes > 0
    /\ th[1].st = OK
    /\ label[1] = "Process" /\ limit[1] >= 0
    /\ th[1].pre.c[1] <= limit[1] /\ consumption[1] > limit[1]

\* ------------------------------------------------------------- C21
\* Limits of the query runs.  LimitLow: the root has the lowest limit of
\* all, 0, tracker 2 limit 1 and tracker 3 limit 3, tracker 4 none.
LimitLow == [n \in Nodes |-> CASE n = 1 -> 0 [] n = 2 -> 1 [] n = 3 -> 3 [] OTHER -> -1]

\* The steps of a query or consume call in flight of thread t.
QueryStep(t) ==
    \/ AleLoop(t)
    \/ ScLoop(t)
    \/ LlLoop(t)
    \/ ConsumeStep(t)

\* One thread issues consume calls on the root and on the trackers 3 and 4
\* and, between them, the queries limit_exceeded, any_limit_exceeded,
\* spare_capacity and get_lowest_limit on every tracker.
InitQuery == InitWith({LabelUsual}, {LimitInner, LimitRoot, LimitPools, LimitLow}, {GcNone})
NextQuery ==
    \/ \E n \in {1, 3, 4}, b \in Bytes : CallConsume(1, n, b)
    \/ \E n \in Nodes : CallLimitExceeded(1, n)
    \/ \E n \in Nodes : CallAnyLimitExceeded(1, n)
    \/ \E n \in Nodes : CallSpareCapacity(1, n)
    \/ \E n \in Nodes : CallGetLowestLimit(1, n)
    \/ QueryStep(1)
SpecQuery == InitQuery /\ [][NextQuery]_vars

\* Tracker a has a limit and its consumption is above it.
Over(a) == limit[a] >= 0 /\ consumption[a] > limit[a]

RootHasNoLowestLimit ==
    /\ th[1].pc = "done" /\ th[1].op = "get_lowest_limit" /\ th[1].self = 1
    /\ limit[1] >= 0 /\ th[1].val = -1

\* ------------------------------------------------------------- C24
\* The limits given to the trackers constructed in a run.
CreateLimits == {-1, 2}

\* One thread destroys trackers and constructs trackers under any live
\* parent, with and without a limit, and between these issues consume and
\* try_consume calls on the live trackers, whose GC callbacks run.
InitTree == InitWith({LabelUsual}, {LimitInner, LimitRoot}, {GcIdle, GcFrees})
NextTree ==
    \/ \E n \in Nodes, p \in Nodes, lim \in CreateLimits : CallCreate(1, n, p, lim)
    \/ \E n \in Nodes : CallDestroy(1, n)
    \/ \E n \in live : CallConsume(1, n, MaxBytes)
    \/ \E n \in live, b \in PosBytes : CallTryConsume(1, n, b)
    \/ TreeStep(1)
    \/ ReclaimStep(1)
SpecTree == InitTree /\ [][NextTree]_vars

\* C24: the ancestor-cache invariant.  For every live tracker,
\* all_ancestors starts with the tracker itself, each later entry is the
\* parent of the entry before it and the last entry is the root, every
\* entry being live; limited_ancestors is the subsequence of
\* all_ancestors, in the same order, of the non-root trackers with limit
\* >= 0; and no step of any operation (construction or destruction of
\* another tracker, consume, try_consume, GC) changes either list of a
\* tracker that is live before and after the step.
C24_AncestorCache ==
    /\ [](\A n \in live :
            LET all == all_ancestors[n] IN
            /\ Len(all) >= 1 /\ all[1] = n
            /\ \A k \in 1..(Len(all) - 1) : all[k + 1] = parent[all[k]]
            /\ parent[all[Len(all)]] = NoParent
            /\ \A k \in 1..Len(all) : all[k] \in live
            /\ limited_ancestors[n] = LimitedChain(n))
    /\ [][\A n \in live \cap live' :
              /\ all_ancestors'[n] = all_ancestors[n]
              /\ limited_ancestors'[n] = limited_ancestors[n]]_vars

\* Tracker 4 was destroyed and constructed again, with a limit, under its
\* former sibling 3, and a try_consume on it has returned: its chain is
\* 4, 3, 2, 1.
C24_Witness ==
    /\ th[1].pc = "done" /\ th[1].op = "try_consume" /\ th[1].self = 4
    /\ 4 \in live /\ all_ancestors[4] = <<4, 3, 2, 1>>
    /\ limit[4] >= 0 /\ limited_ancestors[4][1] = 4
    /\ consumption[4] > 0

\* ------------------------------------------------------------- C26
\* Thread t takes a step of the destruction of tracker n.
DestroyStep(t, n) ==
    \/ th[t].op = "destroy" /\ th[t].self = n /\ th[t].pc # "done" /\ th'[t] # th[t]
    \/ th'[t].op = "destroy" /\ th'[t].self = n /\ ncalls' # ncalls

\* C26: destruction does not release consumption.  No step of the
\* destruction of a tracker changes the counter, the accumulator, the
\* limit, the caches or the callbacks of another tracker, and the only
\* child list that changes, apart from the one that goes with the
\* tracker, is the list of its parent, which loses the tracker; when the
\* destructor has returned, every ancestor has the counter it had,
\* the consumption of the destroyed tracker still attributed to it.
C26_DestroyKeepsConsumption ==
    /\ [][\A n \in Nodes : DestroyStep(1, n) =>
             \A a \in Nodes \ {n} :
                /\ consumption'[a] = consumption[a]
                /\ untracked_mem'[a] = untracked_mem[a]
                /\ limit'[a] = limit[a] /\ parent'[a] = parent[a]
                /\ all_ancestors'[a] = all_ancestors[a]
                /\ limited_ancestors'[a] = limited_ancestors[a]
                /\ gc_functions'[a] = gc_functions[a]
                /\ had_child_count'[a] = had_child_count[a]
                /\ child_tracker_limiters'[a] # child_tracker_limiters[a]
                      => /\ a = parent[n]
                         /\ child_tracker_limiters'[a] = Erase(child_tracker_limiters[a], n)]_vars
    /\ []((th[1].pc = "done" /\ th[1].op = "destroy") =>
            /\ \A a \in Nodes \ {th[1].self} : consumption[a] = th[1].pre.c[a]
            /\ th[1].self \notin SeqSet(child_tracker_limiters[th[1].dst]))

\* Tracker 3 has been destroyed with a consumption of 2 bytes: its parent
\* 2 and the root still have the consumption they had, 2 bytes or more.
C26_Witness ==
    /\ th[1].pc = "done" /\ th[1].op = "destroy" /\ th[1].self = 3
    /\ th[1].pre.c[3] >= 2
    /\ consumption[2] = th[1].pre.c[2] /\ consumption[2] >= 2
    /\ consumption[1] = th[1].pre.c[1] /\ consumption[1] >= 2
    /\ 3 \notin live

\* ------------------------------------------------------------- C25
\* The state in which only the trackers of L, the root and trackers below
\* it, have been constructed, with the limits lim and no consumption.
InitLive(L, lim) ==
    LET p == [n \in Nodes |-> IF n \in L THEN InitParent[n] ELSE NoParent]
        Kids(n) == SortedSeq({c \in L : InitParent[c] = n})
    IN
    /\ parent = p
    /\ label = LabelUsual
    /\ limit = [n \in Nodes |-> IF n \in L THEN lim[n] ELSE -1]
    /\ all_ancestors = [n \in Nodes |-> IF n \in L THEN Chain(p, n) ELSE <<>>]
    /\ limited_ancestors = [n \in Nodes |-> IF n \in L THEN LimitedOf(p, limit, n) ELSE <<>>]
    /\ live = L
    /\ child_tracker_limiters = [n \in Nodes |-> Kids(n)]
    /\ had_child_count = [n \in Nodes |-> Len(Kids(n))]
    /\ child_tracker_limiter_lock = [n \in Nodes |-> 0]
    /\ gc_functions = [n \in Nodes |-> <<>>]
    /\ consumption = [n \in Nodes |-> 0]
    /\ untracked_mem = [n \in Nodes |-> 0]
    /\ gc_lock = [n \in Nodes |-> 0]
    /\ vm_rss = 0
    /\ th = [t \in Threads |-> Idle]
    /\ ncalls = 0
    /\ hist = HistInit

\* Two threads concurrently destroy and construct trackers, thread 1 the
\* tracker 3 and thread 2 the tracker 4, under the parents 1 and 2; at the
\* start the trackers 3 and 4 exist or are still to be constructed.
InitReg == \E L \in {{1, 2}, Nodes} : InitLive(L, LimitInner)
NextReg ==
    \/ \E t \in Threads, p \in {1, 2}, lim \in CreateLimits : CallCreate(t, NodeOf(t), p, lim)
    \/ \E t \in Threads : CallDestroy(t, NodeOf(t))
    \/ \E t \in Threads : TreeStep(t)
SpecReg == InitReg /\ [][NextReg]_vars

\* C25: the child-registry lifecycle.  Once every constructor and
\* destructor has returned, the child list of each live tracker holds
\* exactly its live children, each once, and remain_child_count (the
\* length of the list) is at most had_child_count; and no step makes the
\* had_child_count of a tracker that stays live decrease.
C25_ChildRegistry ==
    /\ [](AllReturned =>
            \A p \in live :
                /\ SeqSet(child_tracker_limiters[p]) = {c \in live : parent[c] = p}
                /\ Len(child_tracker_limiters[p]) = Cardinality({c \in live : parent[c] = p})
                /\ Len(child_tracker_limiters[p]) <= had_child_count[p])
    /\ [][\A p \in live \cap live' : had_child_count'[p] >= had_child_count[p]]_vars

\* Thread 1 has destroyed tracker 3 and thread 2 has destroyed tracker 4
\* and constructed it again under the same parent 2, which has had three
\* children and has one left.
C25_Witness ==
    /\ AllReturned
    /\ th[1].op = "destroy" /\ th[1].self = 3 /\ th[1].dst = 2
    /\ th[2].op = "create" /\ th[2].self = 4 /\ th[2].dst = 2
    /\ child_tracker_limiters[2] = <<4>>
    /\ had_child_count[2] = 3

\* The constructor of tracker 3 holds the lock of the parent 2, has read
\* the list and not yet written it, while the constructor of tracker 4
\* waits for the same lock.
RegistryContended ==
    /\ th[1].op = "create" /\ th[1].pc = "ctor_insert" /\ th[1].dst = 2
    /\ th[2].op = "create" /\ th[2].pc = "ctor_lock" /\ th[2].dst = 2
    /\ child_tracker_limiter_lock[2] = 1

\* ------------------------------------------------------------- C27
\* Thread 1 issues consume, release and try_consume calls on tracker 3
\* and goes on running while it is in a call.  Thread 2 issues
\* try_consume calls on tracker 4, whose GC passes take the gc_lock of the
\* trackers of its chain, and destroys and constructs tracker 4
\* under tracker 2, taking the lock of tracker 2's child list; it may stop
\* for good at any point, a lock held.  Tracker 2 has the limit 4 and two
\* callbacks that hold one byte each.
LimitHot == [n \in Nodes |-> IF n = 2 THEN 4 ELSE -1]
GcHot == [n \in Nodes |-> IF n = 2 THEN <<1, 1>> ELSE <<>>]
InitHot == InitWith({LabelUsual}, {LimitHot}, {GcHot})
NextHot ==
    \/ CallConsume(1, 3, 1)
    \/ CallRelease(1, 3, 1)
    \/ CallTryConsume(1, 3, 1)
    \/ ReclaimStep(1)
    \/ 4 \in live /\ Settled(4) /\ CallTryConsume(2, 4, MaxBytes)
    \/ CallDestroy(2, 4)
    \/ CallCreate(2, 4, 2, NoLimit)
    \/ ReclaimStep(2)
    \/ TreeStep(2)
FairHot == InitHot /\ [][NextHot]_vars /\ WF_vars(ReclaimStep(1))

\* The call of frame f is on the hot path: in consume or release, or in
\* try_consume outside a GC pass.
HotPath(f) ==
    /\ f.pc \notin {"idle", "done"}
    /\ \/ f.op \in {"consume", "release"}
       \/ /\ f.op = "try_consume"
          /\ f.pc \in {"sys", "tc_walk", "try_add", "tc_after_gc", "tc_rollback"}

\* C27: the hot path is lock-free.  No step of consume, of release or of
\* try_consume outside a GC pass takes or releases a gc_lock or the lock of
\* a child list; and whatever locks another thread holds, and for however
\* long, a consume or release call in flight returns, and a try_consume
\* call in flight returns or, try_add having failed, turns to the GC
\* protocol.
C27_HotPathLockFree ==
    /\ [][(HotPath(th[1]) /\ th'[1] # th[1])
            => /\ gc_lock' = gc_lock
               /\ child_tracker_limiter_lock' = child_tracker_limiter_lock]_vars
    /\ (HotPath(th[1]) /\ th[1].op \in {"consume", "release"}) ~> (th[1].pc = "done")
    /\ (HotPath(th[1]) /\ th[1].op = "try_consume")
          ~> (th[1].pc = "done" \/ th[1].pc = "gc_lock")

\* A consume of thread 1 on tracker 3 has returned, its parent 2 and the
\* root charged, while thread 2 is inside a GC pass on tracker 2 and holds
\* its gc_lock.
C27_Witness ==
    /\ th[1].pc = "done" /\ th[1].op = "consume" /\ th[1].self = 3
    /\ consumption[3] = th[1].pre.c[3] + th[1].bytes
    /\ gc_lock[2] = 2 /\ th[2].pc = "gc_loop" /\ th[2].gcnode = 2

\* A try_consume of thread 1 on tracker 3 has succeeded while the
\* constructor of tracker 4, of thread 2, holds the lock of the child list
\* of tracker 2.
DoneUnderRegistryLock ==
    /\ th[1].pc = "done" /\ th[1].op = "try_consume" /\ th[1].st = OK
    /\ th[1].bytes > 0 /\ th[1].self = 3
    /\ child_tracker_limiter_lock[2] = 2 /\ th[2].pc = "ctor_insert"

\* ------------------------------------------------------------- C28
\* Two threads issue consume and release calls, thread 1 on tracker 3 or
\* its parent 2 and thread 2 on tracker 4, in any interleaving of the adds;
\* consume and release look at no limit.  The counters of the chain of
\* tracker 3 start at the byte its callback holds.
InitShare == InitWith({LabelUsual}, {LimitInner}, {GcFrees})
NextShare ==
    \/ \E n \in {3, 2}, b \in PosBytes : CallConsume(1, n, b)
    \/ \E n \in {3, 2} : CallRelease(1, n, 1)
    \/ \E b \in PosBytes : CallConsume(2, 4, b)
    \/ CallRelease(2, 4, 1)
    \/ \E t \in Threads : ConsumeStep(t)
SpecShare == InitShare /\ [][NextShare]_vars

\* The counter of tracker a after construction: what the callbacks on the
\* trackers at or below it hold.
StartValue(a) ==
    HeldByGc(InitParent, [n \in Nodes |->
        [k \in 1..Len(gc_functions[n]) |-> gc_functions[n][k].pool]])[a]

\* C28: no lost update on a shared counter.  Once every consume and
\* release of the two threads has returned, the counter of every tracker,
\* the shared ancestors 2 and 1 included, is its initial value plus the sum
\* of the deltas of the calls whose chain contains it, whatever the
\* interleaving of their adds.
C28_NoLostUpdate ==
    AllReturned => \A a \in Nodes : consumption[a] = StartValue(a) + hist.expect[a]

\* Both threads have returned, thread 1 from a consume on tracker 3 and
\* thread 2 from a call on tracker 4 that was issued when thread 1 had
\* charged tracker 3 and not yet the shared ancestors, and the root's
\* counter has moved by both deltas.
C28_Witness ==
    /\ AllReturned /\ ncalls = 2
    /\ th[1].op = "consume" /\ th[1].self = 3 /\ th[1].pc = "done"
    /\ th[2].op \in {"consume", "release"} /\ th[2].self = 4 /\ th[2].pc = "done"
    /\ th[2].pre.c[3] = th[1].pre.c[3] + th[1].bytes
    /\ th[2].pre.c[2] = th[1].pre.c[2]
    /\ consumption[1] # th[1].pre.c[1] + th[1].bytes
    /\ consumption[1] # th[2].pre.c[1]

\* ------------------------------------------------------------- C29
\* log_usage(max_recursive_depth): "the maximum number of levels of
\* children to include in the dump. If it is zero, then no children are
\* dumped."
NoChildrenDumped_Below(max_recursive_depth) == max_recursive_depth < 0
NoChildrenDumped(max_recursive_depth) == max_recursive_depth = 0

\* The trackers log_usage reports, in the order of the dump: the tracker,
\* then, one level less allowed, each tracker of its child list.
RECURSIVE LogUsage(_, _), LogUsageOf(_, _)
LogUsageOf(max_recursive_depth, trackers) ==
    IF trackers = <<>> THEN <<>>
    ELSE LogUsage(Head(trackers), max_recursive_depth)
            \o LogUsageOf(max_recursive_depth, Tail(trackers))
LogUsage(n, max_recursive_depth) ==
    <<n>> \o (IF NoChildrenDumped(max_recursive_depth) THEN <<>>
              ELSE LogUsageOf(max_recursive_depth - 1, child_tracker_limiters[n]))

\* The trackers make_snapshot(snapshots, cur_level, upper_level) appends a
\* snapshot of: the tracker, then, while cur_level < upper_level, those of
\* each tracker of its child list one level further.
RECURSIVE MakeSnapshot(_, _, _), MakeSnapshotOf(_, _, _)
MakeSnapshotOf(trackers, cur_level, upper_level) ==
    IF trackers = <<>> THEN <<>>
    ELSE MakeSnapshot(Head(trackers), cur_level, upper_level)
            \o MakeSnapshotOf(Tail(trackers), cur_level, upper_level)
MakeSnapshot(n, cur_level, upper_level) ==
    <<n>> \o (IF cur_level < upper_level
                THEN MakeSnapshotOf(child_tracker_limiters[n], cur_level + 1, upper_level)
                ELSE <<>>)

\* Thread t returns from the report of frame f with the trackers reported.
ReturnReport(t, f, reported) ==
    /\ th' = Upd(t, [Done(f, OK) EXCEPT !.rep = reported])
    /\ UNCHANGED hist

\* log_usage(max_recursive_depth) on tracker n; the child lists it walks
\* are read under their locks.
CallLogUsage(t, n, max_recursive_depth) ==
    /\ CanCall(t)
    /\ n \in live /\ Settled(n)
    /\ \A c \in Nodes : ChildLockFree(c)
    /\ ReturnReport(t, Fresh("log_usage", n, max_recursive_depth),
                    LogUsage(n, max_recursive_depth))
    /\ Issue

\* make_snapshot(snapshots, 0, upper_level) on tracker n.
CallMakeSnapshot(t, n, upper_level) ==
    /\ CanCall(t)
    /\ n \in live /\ Settled(n)
    /\ \A c \in Nodes : ChildLockFree(c)
    /\ ReturnReport(t, Fresh("make_snapshot", n, upper_level),
                    MakeSnapshot(n, 0, upper_level))
    /\ Issue

\* One thread destroys leaves and constructs trackers under any live
\* parent, so that the tree is up to four trackers deep or three wide, and
\* asks for reports of the live trackers at every depth up to MaxDepth.
Depths == 0..MaxDepth
InitReport == InitWith({LabelUsual}, {LimitInner}, {GcNone})
NextReport ==
    \/ \E n \in Nodes, p \in Nodes : CallCreate(1, n, p, NoLimit)
    \/ \E n \in Nodes : CallDestroy(1, n)
    \/ TreeStep(1)
    \/ \E n \in Nodes, k \in Depths : CallLogUsage(1, n, k)
    \/ \E n \in Nodes, k \in Depths : CallMakeSnapshot(1, n, k)
SpecReport == InitReport /\ [][NextReport]_vars

\* Tracker r is tracker n or a descendant of n at most k levels below it.
Within(r, n, k) ==
    \E j \in 1..(k + 1) : j <= Len(all_ancestors[r]) /\ all_ancestors[r][j] = n

\* C29: the reporting depth bound.  A log_usage or make_snapshot with
\* maximum recursion depth k that has returned reported the tracker itself,
\* first, and besides it only descendants of the tracker at most k levels
\* below it; with depth 0 it reported the tracker and nothing else.
C29_ReportDepth ==
    \A t \in Threads :
        (th[t].pc = "done" /\ th[t].op \in {"log_usage", "make_snapshot"})
            => /\ th[t].rep # <<>> /\ th[t].rep[1] = th[t].self
               /\ \A i \in 2..Len(th[t].rep) :
                     /\ th[t].rep[i] # th[t].self
                     /\ Within(th[t].rep[i], th[t].self, th[t].bytes)
               /\ th[t].bytes = 0 => th[t].rep = <<th[t].self>>

\* A log_usage of depth 1 on the root of a tree four trackers deep has
\* returned: it reported the root and its child and left the grandchild
\* and the great-grandchild out.
C29_Witness ==
    /\ th[1].pc = "done" /\ th[1].op = "log_usage"
    /\ th[1].self = 1 /\ th[1].bytes = 1
    /\ th[1].rep = <<1, 2>>
    /\ \E r \in live : Len(all_ancestors[r]) = 4

\* Every live descendant within the depth is reported, once: a
\* make_snapshot of depth 2 on the root of the initial tree has reported
\* the four trackers.
ReportComplete ==
    \A t \in Threads :
        (th[t].pc = "done" /\ th[t].op \in {"log_usage", "make_snapshot"})
            => /\ SeqSet(th[t].rep) = {r \in live : Within(r, th[t].self, th[t].bytes)}
               /\ Len(th[t].rep) = Cardinality(SeqSet(th[t].rep))
SnapshotOfAll ==
    /\ th[1].pc = "done" /\ th[1].op = "make_snapshot"
    /\ th[1].self = 1 /\ th[1].bytes = 2 /\ th[1].rep = <<1, 2, 3, 4>>

\* ------------------------------------------------------------- C30
\* The accumulator of the tracker of frame f once the bytes of the call
\* are added to what it held when the call was issued.
Accumulated(f) == f.pre.u[f.self] + f.bytes

\* The cache_consume_local of frame f has reset the accumulator and
\* propagated: the accumulator is zero and the counter of the tracker,
\* unless it is the "Process" tracker, where the propagation stops before
\* the first add, has moved.
Flushed(f) ==
    /\ untracked_mem[f.self] = 0
    /\ label[f.self] # "Process" => consumption[f.self] # f.pre.c[f.self]

\* The cache_consume_local of frame f has only accumulated: no counter has
\* changed and the accumulator holds the added bytes.
Kept(f) ==
    /\ consumption = f.pre.c
    /\ untracked_mem = [f.pre.u EXCEPT ![f.self] = Accumulated(f)]

\* C30: the flush condition.  A cache_consume_local(bytes != 0) that has
\* returned has reset the accumulator and propagated if, after adding
\* bytes, the magnitude of the accumulator exceeded the flush threshold,
\* and otherwise has changed no counter and left the added bytes in the
\* accumulator; a cache_consume_local(0) has changed nothing.
C30_FlushCondition ==
    (th[1].pc = "done" /\ th[1].op = "cache_consume_local")
        => IF th[1].bytes = 0
             THEN consumption = th[1].pre.c /\ untracked_mem = th[1].pre.u
             ELSE IF Abs(Accumulated(th[1])) > mem_tracker_consume_min_size_bytes
                    THEN Flushed(th[1])
                    ELSE Kept(th[1])

\* What the code does: the same with the accumulator's magnitude at or
\* above the threshold.
FlushAtThreshold ==
    (th[1].pc = "done" /\ th[1].op = "cache_consume_local")
        => IF th[1].bytes = 0
             THEN consumption = th[1].pre.c /\ untracked_mem = th[1].pre.u
             ELSE IF Abs(Accumulated(th[1])) >= mem_tracker_consume_min_size_bytes
                    THEN Flushed(th[1])
                    ELSE Kept(th[1])

\* A cache_consume_local on tracker 3 that brought the accumulator to the
\* threshold exactly has returned, the accumulator reset.
FlushedAtThreshold ==
    /\ th[1].pc = "done" /\ th[1].op = "cache_consume_local" /\ th[1].self = 3
    /\ Abs(Accumulated(th[1])) = mem_tracker_consume_min_size_bytes
    /\ untracked_mem[3] = 0 /\ consumption[3] # th[1].pre.c[3]

\* ------------------------------------------------------------- C31
\* Two threads issue cache_consume_local calls with positive and negative
\* bytes on the same tracker 3; the add, the test and the exchange of
\* add_untracked_mem interleave in every way.
InitAcc == InitWith({LabelUsual}, {LimitInner}, {GcNone})
NextAcc ==
    \/ \E t \in Threads, b \in Bytes \ {0} : CallCacheConsumeLocal(t, 3, b)
    \/ \E t \in Threads : UmAdd(t)
    \/ \E t \in Threads : UmTest(t)
    \/ \E t \in Threads : UmXchg(t)
    \/ \E t \in Threads : CclLoop(t)
SpecAcc == InitAcc /\ [][NextAcc]_vars

\* The bytes passed to a call on tracker n that its add_untracked_mem has
\* not added yet.
NotYetAdded(t, n) ==
    IF th[t].pc = "um_add" /\ th[t].cnode = n THEN th[t].delta ELSE 0

\* C31: the accumulator is thread safe.  At every moment, for every
\* tracker, the sum of the values returned by add_untracked_mem plus the
\* accumulator plus the bytes of the calls that have not added yet is the
\* sum of the bytes passed; so once every call has returned the values
\* returned plus the final accumulator are the bytes passed, none dropped
\* and none drained twice.
C31_AccumulatorSafe ==
    \A n \in Nodes :
        hist.drained[n] + untracked_mem[n] + NotYetAdded(1, n) + NotYetAdded(2, n)
            = hist.passed[n]

\* Both threads have returned from calls on tracker 3, of 1 byte (thread 1,
\* issued on an empty accumulator) and of 2 bytes (thread 2); the
\* accumulator is empty and the 3 bytes were drained by thread 1, whose
\* flush put its 1 byte on the counter: it tested after the add of thread 2.
C31_Witness ==
    /\ AllReturned /\ ncalls = 2
    /\ th[1].op = "cache_consume_local" /\ th[1].self = 3 /\ th[1].bytes = 1
    /\ th[2].op = "cache_consume_local" /\ th[2].self = 3 /\ th[2].bytes = 2
    /\ th[1].pre.u[3] = 0
    /\ untracked_mem[3] = 0 /\ hist.drained[3] = 3 /\ consumption[3] = 1

\* Both threads have passed the test of the same accumulator and are about
\* to exchange it: the second exchange will return 0.
BothAboutToExchange ==
    /\ th[1].pc = "um_xchg" /\ th[2].pc = "um_xchg"
    /\ th[1].cnode = 3 /\ th[2].cnode = 3

\* ------------------------------------------------------------- C32
\* No cache_consume_local call is in flight on tracker n.
NoneInFlightOn(n) ==
    \A t \in Threads : ~(InBatchCall(th[t]) /\ th[t].cnode = n)

\* The trackers without children: their counters move only by calls on
\* themselves.
Leaves == {n \in Nodes : \A c \in Nodes : parent[c] # n}

\* C32: the bounded batching error.  Whenever no cache_consume_local call
\* is in flight on a tracker, the magnitude of its accumulator does not
\* exceed the flush threshold, and the bytes passed to cache_consume_local
\* on it that its counter does not show yet are within the threshold too.
C32_BoundedError ==
    \A n \in Leaves :
        NoneInFlightOn(n)
            => /\ Abs(untracked_mem[n]) <= mem_tracker_consume_min_size_bytes
               /\ label[n] # "Process"
                    => Abs(hist.passed[n] - consumption[n])
                          <= mem_tracker_consume_min_size_bytes

\* The first half alone: between calls the accumulator of every tracker is
\* below the threshold, whatever the interleaving.
AccumulatorBounded ==
    \A n \in Nodes :
        NoneInFlightOn(n) => Abs(untracked_mem[n]) < mem_tracker_consume_min_size_bytes

\* The bytes passed to tracker 3 and missing from its counter are beyond
\* the threshold while its accumulator is within it.
ErrorBeyondThreshold ==
    /\ AllReturned
    /\ Abs(untracked_mem[3]) < mem_tracker_consume_min_size_bytes
    /\ Abs(hist.passed[3] - consumption[3]) > mem_tracker_consume_min_size_bytes

\* ------------------------------------------------------------- C33
\* Two threads concurrently issue try_consume and check_limit calls with
\* positive bytes, thread 1 on tracker 3 and thread 2 on its sibling 4, on
\* the usual tree with limits on the trackers 2 and 3, whose GC callbacks
\* hold memory and release it when they are called.
InitLock == InitWith({LabelUsual}, {LimitPools}, {GcPools})
NextLock ==
    \/ \E t \in Threads, b \in PosBytes : CallTryConsume(t, NodeOf(t), b)
    \/ \E t \in Threads, b \in PosBytes : CallCheckLimit(t, NodeOf(t), b)
    \/ \E t \in Threads : GateStep(t)
SpecLock == InitLock /\ [][NextLock]_vars

\* The gc_locks thread t holds.
HeldBy(t) == {n \in Nodes : gc_lock[n] = t}

\* Thread t is in a call and can take no step.
Stuck(t) == th[t].pc \notin {"idle", "done"} /\ ~ENABLED GateStep(t)

\* C33: the scope of gc_lock and deadlock freedom.  A thread in
\* try_consume or check_limit holds the gc_lock of a tracker only inside
\* the reclaim-callback sequence and re-check of that tracker, so never at
\* a try_add, an unconditional add or the rollback, and never two gc_locks
\* at once; and a thread in a call that can take no step is waiting for
\* the gc_lock of a tracker that another thread holds, which can take a
\* step: concurrent calls never deadlock, the releases of the callbacks
\* being made with the lock held.
C33_LockScope ==
    \A t \in Threads :
        /\ \A n \in HeldBy(t) : InPass(t, n)
        /\ Cardinality(HeldBy(t)) <= 1
        /\ th[t].pc \in {"idle", "done", "sys", "tc_walk", "try_add", "tc_after_gc",
                         "tc_rollback", "cl_walk", "cl_after_gc", "gc_lock"}
              => HeldBy(t) = {}
        /\ Stuck(t)
              => /\ th[t].pc = "gc_lock"
                 /\ \E u \in Threads \ {t} :
                       th[t].gcnode \in HeldBy(u) /\ ~Stuck(u)

\* Thread 1, in try_consume, waits for the gc_lock of tracker 2 while
\* thread 2, in check_limit, holds it and is in the release of a callback
\* of tracker 2.
C33_Witness ==
    /\ th[1].op = "try_consume" /\ th[1].pc = "gc_lock" /\ th[1].gcnode = 2
    /\ th[2].op = "check_limit" /\ HeldBy(2) = {2}
    /\ th[2].pc = "consume" /\ th[2].cret = "gc_loop"
    /\ Stuck(1) /\ ~Stuck(2)

\* ------------------------------------------------------------- C34
\* update_limit(limit): DCHECK(has_limit()); _limit = limit.  The call is
\* made on a tracker that has a limit; the new limit is any int64.
CallUpdateLimit(t, n, lim) ==
    /\ CanCall(t)
    /\ n \in live /\ has_limit(n)
    /\ limit' = [limit EXCEPT ![n] = lim]
    /\ Return(t, Fresh("update_limit", n, lim), OK)
    /\ ncalls' = ncalls + 1
    /\ UNCHANGED <<parent, label, all_ancestors, limited_ancestors, live,
                   child_tracker_limiters, had_child_count,
                   child_tracker_limiter_lock, consumption, untracked_mem, gc_lock,
                   gc_functions, vm_rss>>

\* One thread issues update_limit calls on the trackers that have a limit,
\* with new limits below, at and above zero, and between them check_limit,
\* try_consume, spare_capacity and any_limit_exceeded calls on the leaves.
UpdateLimits == {-1, 0, MaxBytes + 1}
InitLimit == InitWith({LabelUsual}, {LimitInner}, {GcNone})
NextLimit ==
    \/ \E n \in Nodes, lim \in UpdateLimits : CallUpdateLimit(1, n, lim)
    \/ \E n \in {3, 4} : CallCheckLimit(1, n, 1)
    \/ \E n \in {3, 4} : CallTryConsume(1, n, 1)
    \/ \E n \in {3, 4} : CallSpareCapacity(1, n)
    \/ \E n \in {3, 4} : CallAnyLimitExceeded(1, n)
    \/ TryStep(1)
    \/ ClWalk(1)
    \/ ClAfterGc(1)
    \/ AleLoop(1)
    \/ ScLoop(1)
SpecLimit == InitLimit /\ [][NextLimit]_vars

\* C34: update_limit keeps the limited-ancestor caches valid.  After any
\* sequence of update_limit calls, each on a tracker that has a limit at the
\* time of the call, every tracker in a limited_ancestors list has a limit
\* >= 0.
C34_CachesValid ==
    \A n \in Nodes : \A i \in 1..Len(limited_ancestors[n]) :
        limit[limited_ancestors[n][i]] >= 0

\* A step that is not an update_limit with a negative limit keeps the
\* lists valid.
NonNegativeKeepsValid ==
    [][(C34_CachesValid /\ ~(ncalls' # ncalls /\ th'[1].op = "update_limit"
                                              /\ th'[1].bytes < 0))
         => C34_CachesValid']_vars

\* check_limit(1) on tracker 4, nothing consumed, has failed at tracker 2,
\* which has no limit since update_limit(-1) and is still in the list of
\* tracker 4.
UnlimitedTreatedAsLimited ==
    /\ th[1].pc = "done" /\ th[1].op = "check_limit" /\ th[1].self = 4
    /\ th[1].st = TrackerLimitExceeded(2)
    /\ limit[2] = -1 /\ consumption[2] = 0

\* ------------------------------------------------------------- C35
\* Two threads concurrently issue try_consume(bytes > 0) calls, thread 1
\* on tracker 3 and thread 2 on its sibling 4, which share the limited
\* tracker 2; nothing is released and there is no GC callback, so that the
\* committed consumption of a tracker, hist.expect, only grows.
InitRival == InitWith({LabelUsual}, {LimitInner}, {GcNone})
NextRival ==
    \/ \E t \in Threads, b \in PosBytes : CallTryConsume(t, NodeOf(t), b)
    \/ \E t \in Threads : TryStep(t)
SpecRival == InitRival /\ [][NextRival]_vars

\* What the try_consume in flight of thread t has on the counter of
\* tracker a at this moment: its bytes if the walk has passed a and the
\* rollback has not reached it yet.
ChargeOn(t, a) ==
    LET f == th[t] IN
    IF /\ f.op = "try_consume" /\ f.pc \notin {"idle", "done", "sys"}
       /\ \E p \in 1..Len(all_ancestors[f.self]) :
             /\ all_ancestors[f.self][p] = a
             /\ p > f.i
             /\ f.pc = "tc_rollback" => p <= f.j
    THEN f.bytes ELSE 0

\* The try_consume of thread t has failed at tracker a and has returned.
FailedAt(t, a) ==
    /\ th[t].pc = "done" /\ th[t].op = "try_consume"
    /\ th[t].st = TrackerLimitExceeded(a)

\* The step in which try_gc_memory reports failure to the try_consume of
\* thread t leaves its counters and limits alone; Rival(t) is the other
\* thread.
Rival(t) == 3 - t
GcFailsFor(t) ==
    /\ th[t].op = "try_consume" /\ th[t].pc = "gc_done"
    /\ th'[t].pc = "tc_after_gc" /\ th'[t].st # OK

\* C35 as claimed: when both threads have returned from failed calls, one
\* at the shared tracker 2 and the other below it, after a rollback, the
\* committed consumption of tracker 2 plus the bytes of the call that
\* failed there is not below the limit of tracker 2.
C35_Original ==
    \A t \in Threads :
        (FailedAt(t, 2) /\ FailedAt(Rival(t), NodeOf(Rival(t))))
            => ~(hist.expect[2] + th[t].bytes < limit[2])

\* C35: transient charges.  At every moment the counter of a tracker is
\* its committed consumption plus the bytes of the try_consume calls in
\* flight that have charged it and not rolled it back; and try_gc_memory
\* fails a try_consume at a tracker only when the committed consumption
\* plus the charge of the other thread's call in flight plus the caller's
\* bytes exceeds the limit.  So a call that will roll back can reject a
\* concurrent caller, but only while its charge is on the shared tracker.
C35_TransientCharges ==
    /\ [](\A a \in Nodes :
            consumption[a] = hist.expect[a] + ChargeOn(1, a) + ChargeOn(2, a))
    /\ [][\A t \in Threads :
            GcFailsFor(t)
              => hist.expect[th[t].gcnode] + ChargeOn(Rival(t), th[t].gcnode)
                    + th[t].bytes > limit[th[t].gcnode]]_vars

\* Thread 2 has failed at the shared tracker 2 although the committed
\* consumption of tracker 2 plus its bytes is below the limit, and thread
\* 1 has failed below, at tracker 3, and rolled back.
C35_Witness ==
    /\ FailedAt(2, 2) /\ FailedAt(1, 3)
    /\ hist.expect[2] + th[2].bytes < limit[2]
    /\ consumption = hist.expect

\* ------------------------------------------------------------- C36
\* One thread pre-flights an allocation and commits it: check_limit(b) on
\* a tracker and, when it has returned success, try_consume(b) on the same
\* tracker as its next call, nothing running in between.  Between such
\* pairs the thread consumes memory and updates limits, on trees of every
\* labelling, with limits on the inner trackers or on the parentless one,
\* without GC callbacks and with callbacks that free memory.
InitPre == InitWith(LabelConfigs, LimitConfigs, {GcNone, GcPools})

\* The caller's commit: try_consume of the bytes whose check_limit on the
\* same tracker has just returned success.
CallPreflighted(t) ==
    /\ th[t].pc = "done" /\ th[t].op = "check_limit" /\ th[t].st = OK
    /\ CallTryConsume(t, th[t].self, th[t].bytes)

\* The steps of the calls in flight.  A pre-flighted try_consume that
\* fails does so at the first tracker of its walk, where the rollback loop
\* has nothing to undo.
PreStep(t) ==
    \/ SysCheck(t)
    \/ TcWalk(t)
    \/ TryAdd(t)
    \/ TcAfterGc(t)
    \/ ClWalk(t)
    \/ ClAfterGc(t)
    \/ GcLock(t)
    \/ GcCheck(t)
    \/ GcLoop(t)
    \/ GcDone(t)
    \/ ConsumeStep(t)

NextPre ==
    \/ \E n \in {3, 4}, b \in PosBytes : CallCheckLimit(1, n, b)
    \/ CallPreflighted(1)
    \/ \E n \in {3, 4}, b \in PosBytes : CallConsume(1, n, b)
    \/ \E n \in Nodes, lim \in UpdateLimits : CallUpdateLimit(1, n, lim)
    \/ PreStep(1)
SpecPre == InitPre /\ [][NextPre]_vars

\* Every tracker that try_consume on n gates is one that check_limit on n
\* tests.
GatedAreLimited(n) ==
    \A a \in SeqSet(all_ancestors[n]) : Gated(a) => a \in SeqSet(limited_ancestors[n])

\* Thread t is in, or back from, a pre-flighted try_consume; its status
\* is OK until try_gc_memory has failed for it.
Committed(t) == th[t].op = "try_consume"

====
